---- MODULE Spec2Model ----
(***************************************************************************)
(* State-machine model of the lead pipeline of TGE-Reporting-Tool:         *)
(*   - the matcher (find_fub_matches, processMatches) and the review       *)
(*     resolver (approveCandidate, rejectCandidate)      -> SpecMatch      *)
(*   - the ingestion stager (email-ingest handler)       -> SpecStage      *)
(*   - the embedding queue (queueForEmbedding,                             *)
(*     processEmbeddingQueue)                            -> SpecEmbed      *)
(*   - the normalizers (normalize_phone, normalize_address,                *)
(*     email_normalized)                                 -> SpecNorm       *)
(*   - the csv-parser and the lead-transformer           -> SpecTransform  *)
(*   - fub-sync (transformFubPerson, upsert of a person) -> SpecSync       *)
(*   - fub-sync (the sync of a connection, last_sync_at)  -> SpecConn       *)
(*   - FubClient.iteratePeople (paging)                    -> SpecPage       *)
(*   - processing_log of a batch (stage, parse, transform) -> SpecLog        *)
(* The database is the shared state; every awaited database call of a      *)
(* handler is one atomic step, and a handler in flight keeps its position  *)
(* and its local variables in a "run" record.                              *)
(***************************************************************************)
EXTENDS Integers, Sequences, FiniteSets, TLC

VARIABLES
  \* ---- matcher / review resolver
  fub_leads,         \* fub_leads table: FubIds -> row (or Absent)
  source_leads,      \* source_leads table: SrcIds -> [match_status, match_confidence]
  lead_matches,      \* lead_matches table: set of rows, unique on (source, fub)
  match_candidates,  \* match_candidates table: set of rows, unique on (source, fub)
  data_lineage,      \* data_lineage rows written by the matcher
  mrun,              \* the matcher run in flight (handler loop body + processMatches)
  rrun,              \* the approveCandidate call in flight
  syncs,             \* number of fub-sync upserts so far (bounded by MaxSyncs)
  \* ---- ingestion stager
  raw_ingestions,    \* raw_ingestions table: sequence of rows, id = index
  blobs,             \* number of objects uploaded to the lead-files bucket
  parse_triggers,    \* ingestion ids posted to csv-parser, in order
  srun,              \* the email-ingest requests in flight: StageReqs -> run
  stage_hist,        \* the completed email-ingest requests, in completion order
  \* ---- embedding queue
  embedding_queue,   \* embedding_queue table: TaskIds -> row (or NoTask)
  target_rows,       \* embedding_text of the row a task points at: TaskIds -> text
  wrun,              \* the processEmbeddingQueue runs in flight: Workers -> run
  enqueues,          \* number of queueForEmbedding calls so far (bounded by MaxEnqueues)
  pass_log,          \* per task, the worker passes so far, while they are serial
  \* ---- normalizer
  norm,              \* the value being normalized: input, kind, first and second result
  \* ---- csv-parser / lead-transformer (one ingestion)
  ingestion,         \* the raw_ingestions rows: Batches -> status and row counters
  raw_lead_rows,     \* raw_lead_rows table: sequence of rows, id = index
  created_leads,     \* source_leads rows the transformer inserted: sequence, id = index
  row_lineage,       \* data_lineage rows written by the transformer, in insert order
  lead_tasks,        \* source_leads ids the transformer queued for embedding
  match_requests,    \* the source_lead_ids lists posted to lead-matcher
  trun,              \* the lead-transformer requests in flight: TransformReqs -> run
  transforms,        \* number of lead-transformer requests so far
  prun,              \* per batch, the csv-parser request in flight and the requests so far
  \* ---- fub-sync (one connection, one CRM person)
  fub_person,        \* the person as the CRM holds it
  edits,             \* number of changes made to the person in the CRM
  fub_lead_row,      \* the fub_leads row of the person (or NoRow)
  fub_tasks,         \* number of queueForEmbedding("fub_leads", id, text) calls
  yrun,              \* the fub-sync requests in flight: Syncers -> run
  sync_runs,         \* number of fub-sync requests so far
  last_sync,         \* the fub_sync_log row completed last, with the person it fetched
  \* ---- fub-sync (the sync of one connection, with its times)
  clock,             \* the time, as new Date() gives it
  crm_updated,       \* the time the CRM person was updated last
  connection,        \* the fub_connections row: last_sync_at (0 is null), last_sync_status
  sync_log,          \* status of the fub_sync_log row written last
  synced_updated,    \* the update time of the person as fub_leads holds it (0: no row)
  crun,              \* the sync of the connection in flight
  conn_runs,         \* number of syncs of the connection so far
  \* ---- FubClient.iteratePeople
  iter,              \* the iteration in flight: its parameters, locals and what it yielded
  \* ---- processing_log of one batch, through staging, parse and transform
  logged,            \* the raw_ingestions row: whether it exists, and its processing_log
  lparse,            \* the csv-parser request in flight: its position and the row it read
  ltransform,        \* the lead-transformer request in flight, likewise
  log_runs           \* number of csv-parser and lead-transformer requests so far

matchVars == <<fub_leads, source_leads, lead_matches, match_candidates, data_lineage, mrun, rrun, syncs>>
stageVars == <<raw_ingestions, blobs, parse_triggers, srun, stage_hist>>
embedVars == <<embedding_queue, target_rows, wrun, enqueues, pass_log>>
normVars == <<norm>>
transformVars == <<ingestion, raw_lead_rows, created_leads, row_lineage, lead_tasks,
                   match_requests, trun, transforms, prun>>
syncVars == <<fub_person, edits, fub_lead_row, fub_tasks, yrun, sync_runs, last_sync>>
connVars == <<clock, crm_updated, connection, sync_log, synced_updated, crun, conn_runs>>
pageVars == <<iter>>
logVars == <<logged, lparse, ltransform, log_runs>>
vars == <<matchVars, stageVars, embedVars, normVars, transformVars, syncVars, connVars,
          pageVars, logVars>>

(***************************************************************************)
(* Small helpers                                                           *)
(***************************************************************************)
RECURSIVE SetToSortedSeq(_)
\* the elements of a finite set of integers, ascending
SetToSortedSeq(S) ==
  IF S = {} THEN <<>>
  ELSE LET m == CHOOSE x \in S : \A y \in S : x <= y
       IN <<m>> \o SetToSortedSeq(S \ {m})

SelectSingle(rows) ==
  \* supabase-js .single(): the row when exactly one row matches, else null
  IF Cardinality(rows) = 1 THEN rows ELSE {}


(***************************************************************************)
(* NORMALIZER: normalize_phone, normalize_address, email_normalized          *)
(* A text value is a sequence of characters. "BS" stands for the backspace   *)
(* character: in a PostgreSQL regular expression \b is the backspace         *)
(* (the word boundary is \y), so the pattern '\bstreet\b' matches the        *)
(* seven characters backspace s t r e e t backspace ... backspace.           *)
(***************************************************************************)
Digits == {"0", "1", "2", "3", "4", "5", "6", "7", "8", "9"}

\* the characters the class \s matches
WhiteSpace == {" ", "\t", "\n"}

IsDigit(c) == c \in Digits

\* regexp_replace(phone, '[^0-9]', '', 'g')
NormalizePhone(phone) == SelectSeq(phone, IsDigit)

\* lower() of one character
LowerChar(c) ==
  CASE c = "A" -> "a" [] c = "E" -> "e" [] c = "L" -> "l" [] c = "M" -> "m"
    [] c = "N" -> "n" [] c = "O" -> "o" [] c = "K" -> "k" [] c = "S" -> "s"
    [] c = "T" -> "t" [] c = "V" -> "v" [] c = "U" -> "u" [] c = "R" -> "r"
    [] OTHER -> c

Lower(x) == [i \in 1..Len(x) |-> LowerChar(x[i])]

RECURSIVE TrimLeft(_)
TrimLeft(x) == IF x # <<>> /\ Head(x) = " " THEN TrimLeft(Tail(x)) ELSE x

RECURSIVE TrimRight(_)
TrimRight(x) ==
  IF x # <<>> /\ x[Len(x)] = " " THEN TrimRight(SubSeq(x, 1, Len(x) - 1)) ELSE x

\* trim(x): blanks, and only blanks, are removed from both ends
Trim(x) == TrimRight(TrimLeft(x))

\* email_normalized: generated always as (lower(trim(email)))
NormalizeEmail(email) == Lower(Trim(email))

RECURSIVE ReplaceAll(_, _, _)
\* regexp_replace(x, pat, to, 'g') for a pattern that is a fixed string: every
\* match from left to right, the scan going on after the match
ReplaceAll(x, pat, to) ==
  IF Len(x) < Len(pat) THEN x
  ELSE IF SubSeq(x, 1, Len(pat)) = pat
       THEN to \o ReplaceAll(SubSeq(x, Len(pat) + 1, Len(x)), pat, to)
       ELSE <<Head(x)>> \o ReplaceAll(Tail(x), pat, to)

RECURSIVE CollapseSpaces(_)
\* regexp_replace(x, '\s+', ' ', 'g')
CollapseSpaces(x) ==
  IF x = <<>> THEN <<>>
  ELSE IF Head(x) \in WhiteSpace
       THEN IF Len(x) > 1 /\ x[2] \in WhiteSpace
            THEN CollapseSpaces(Tail(x))
            ELSE <<" ">> \o CollapseSpaces(Tail(x))
       ELSE <<Head(x)>> \o CollapseSpaces(Tail(x))

\* the thirteen replacements of normalize_address, in the order of the code
Abbreviations == <<
  << <<"s","t","r","e","e","t">>, <<"s","t">> >>,
  << <<"a","v","e","n","u","e">>, <<"a","v","e">> >>,
  << <<"b","o","u","l","e","v","a","r","d">>, <<"b","l","v","d">> >>,
  << <<"d","r","i","v","e">>, <<"d","r">> >>,
  << <<"r","o","a","d">>, <<"r","d">> >>,
  << <<"l","a","n","e">>, <<"l","n">> >>,
  << <<"c","o","u","r","t">>, <<"c","t">> >>,
  << <<"a","p","a","r","t","m","e","n","t">>, <<"a","p","t">> >>,
  << <<"s","u","i","t","e">>, <<"s","t","e">> >>,
  << <<"n","o","r","t","h">>, <<"n">> >>,
  << <<"s","o","u","t","h">>, <<"s">> >>,
  << <<"e","a","s","t">>, <<"e">> >>,
  << <<"w","e","s","t">>, <<"w">> >> >>

RECURSIVE ReplaceAbbreviations(_, _)
\* result := regexp_replace(result, '\b<word>\b', '<abbr>', 'g') for entries k..13
ReplaceAbbreviations(x, k) ==
  IF k > Len(Abbreviations) THEN x
  ELSE ReplaceAbbreviations(
         ReplaceAll(x, <<"BS">> \o Abbreviations[k][1] \o <<"BS">>, Abbreviations[k][2]),
         k + 1)

\* normalize_address: lower(trim(addr)), the replacements, then '\s+' -> ' '
NormalizeAddress(addr) == CollapseSpaces(ReplaceAbbreviations(Lower(Trim(addr)), 1))

(***************************************************************************)
(* Bounds of the model                                                     *)
(***************************************************************************)
MaxSrc == 2          \* source leads (canonical leads)
MaxFub == 3          \* CRM leads
MaxSyncs == 2        \* fub-sync upserts per behaviour
MaxStageReqs == 2    \* email-ingest requests that may be in flight together
MaxAttachments == 2  \* CSV attachments of one email
MaxHist == 2         \* completed email-ingest requests per behaviour
MaxTasks == 2        \* embedding tasks (one per (table_name, record_id))
MaxWorkers == 2      \* embedding worker runs that may be in flight together
MaxTexts == 2        \* distinct texts a record may be enqueued with
MaxEnqueues == 2     \* queueForEmbedding calls per behaviour
MaxStrLen == 3       \* characters of a value given to a normalizer
MaxRows == 2         \* rows of the CSV files of the ingestions, all files together
MaxTransformReqs == 2 \* lead-transformer requests that may be in flight together
MaxTransforms == 2   \* lead-transformer requests per behaviour
MaxParses == 1       \* csv-parser requests per batch
MaxBatches == 2      \* ingestions (batches) of the organization and lead source
MaxEdits == 2        \* changes made to the CRM person per behaviour
MaxSyncers == 2      \* fub-sync requests that may be in flight together
MaxSyncRuns == 2     \* fub-sync requests per behaviour
MaxClock == 4        \* the last time of the clock
MaxConnRuns == 2     \* syncs of the connection per behaviour
MaxTotal == 6        \* people the CRM holds
MaxBatchSize == 4    \* batchSize of iteratePeople
MaxLogRuns == 3      \* csv-parser and lead-transformer requests on the batch per behaviour

(***************************************************************************)
(* MATCHER: static data                                                    *)
(***************************************************************************)
SrcIds == 1..MaxSrc
FubIds == 1..MaxFub
Orgs == {1, 2}

\* text columns as sequences of characters; <<>> is null / ''
S456OakAve == <<"4","5","6"," ","o","a","k"," ","a","v","e">>
S456OakAveApt2 == <<"4","5","6"," ","o","a","k"," ","a","v","e"," ","a","p","t"," ","2">>
S9ElmSt == <<"9"," ","e","l","m"," ","s","t">>
Phone10 == <<"5","5","5","1","2","3","4","5","6","7">>
Phone7 == <<"5","5","5","1","2","3","4">>

\* addresses as they arrive, before the trigger normalizes them
A9ElmSt == <<"9"," ","E","l","m"," ","S","t">>
A9ElmStreet == <<"9"," ","e","l","m"," ","s","t","r","e","e","t">>
A456OakAvenue == <<"4","5","6"," ","o","a","k"," ","a","v","e","n","u","e">>

\* source_leads rows as the transformer stored them (normalized columns);
\* organization_id, contact and address columns never change after insert
SrcRow(s) ==
  IF s = 1
  THEN [organization_id |-> 1, email_normalized |-> "john.smith@example.com",
        phone_normalized |-> Phone10, property_address_normalized |-> S456OakAve]
  ELSE [organization_id |-> 2, email_normalized |-> "john.smith@example.com",
        phone_normalized |-> Phone7,
        property_address_normalized |-> NormalizeAddress(A9ElmSt)]

\* fub_leads.organization_id: set from the connection at insert, never updated
FubOrg(f) == IF f = MaxFub THEN 2 ELSE 1

Absent == [present |-> FALSE, email_normalized |-> "", phone_normalized |-> <<>>,
           address_normalized |-> <<>>, assigned_user_id |-> 0]

\* the contents a synced CRM person may have (assigned_user_id 0 is null)
FubProfiles == {
  [present |-> TRUE, email_normalized |-> "john.smith@example.com", phone_normalized |-> <<>>,
   address_normalized |-> <<>>, assigned_user_id |-> 42],
  [present |-> TRUE, email_normalized |-> "", phone_normalized |-> Phone10,
   address_normalized |-> <<>>, assigned_user_id |-> 43],
  [present |-> TRUE, email_normalized |-> "", phone_normalized |-> Phone7,
   address_normalized |-> S456OakAveApt2, assigned_user_id |-> 0],
  [present |-> TRUE, email_normalized |-> "jane@example.com", phone_normalized |-> <<>>,
   address_normalized |-> S9ElmSt, assigned_user_id |-> 0],
  [present |-> TRUE, email_normalized |-> "", phone_normalized |-> <<>>,
   address_normalized |-> NormalizeAddress(A456OakAvenue), assigned_user_id |-> 0],
  [present |-> TRUE, email_normalized |-> "", phone_normalized |-> <<>>,
   address_normalized |-> NormalizeAddress(A9ElmStreet), assigned_user_id |-> 0] }

\* teams.organization_id and the agents table (id, team_id, fub_user_id)
TeamOrg(t) == IF t = 2 THEN 2 ELSE 1
Agents == { [id |-> 1, team_id |-> 1, fub_user_id |-> 43],
            [id |-> 2, team_id |-> 1, fub_user_id |-> 42],
            [id |-> 3, team_id |-> 2, fub_user_id |-> 42] }

(***************************************************************************)
(* MATCHER: find_fub_matches                                               *)
(***************************************************************************)
RECURSIVE SplitWords(_, _, _)
\* the words (maximal runs of non-space characters) of s from position i on
SplitWords(s, i, cur) ==
  IF i > Len(s) THEN (IF cur = <<>> THEN {} ELSE {cur})
  ELSE IF s[i] = " "
       THEN (IF cur = <<>> THEN {} ELSE {cur}) \cup SplitWords(s, i + 1, <<>>)
       ELSE SplitWords(s, i + 1, Append(cur, s[i]))

\* pg_trgm: each word is padded with two blanks before and one after
WordTrgm(w) ==
  LET p == <<" ", " ">> \o w \o <<" ">>
  IN { SubSeq(p, k, k + 2) : k \in 1..(Len(p) - 2) }

ShowTrgm(s) == UNION { WordTrgm(w) : w \in SplitWords(s, 1, <<>>) }

\* pg_trgm similarity(a, b) = |T(a) \cap T(b)| / |T(a) \cup T(b)|, as <<num, den>>
Similarity(a, b) ==
  LET ta == ShowTrgm(a)
      tb == ShowTrgm(b)
  IN <<Cardinality(ta \cap tb), Cardinality(ta \cup tb)>>

\* a confidence in ten-thousandths (numeric(5,4))
Scaled(q) == IF q[2] = 0 THEN 0 ELSE (q[1] * 10000) \div q[2]

\* the organization filter dropped from the three selects
SameOrgNoFilter(s, f) == TRUE

\* where f.organization_id = v_source.organization_id
SameOrg(s, f) == FubOrg(f) = SrcRow(s).organization_id

\* the address branch with the matcher's reject threshold as its floor
SimilarEnoughAboveReject(sim) == sim[1] * 10 > sim[2] * 4

\* and similarity(f.address_normalized, v_source.property_address_normalized) > 0.6
SimilarEnough(sim) == sim[1] * 10 > sim[2] * 6

\* the rows of the "matches" CTE for one fub lead
Signals(s, f) ==
  LET src == SrcRow(s)
      fl == fub_leads[f]
      sim == Similarity(fl.address_normalized, src.property_address_normalized)
  IN  IF ~fl.present \/ ~SameOrg(s, f) THEN {}
      ELSE
        (IF src.email_normalized # "" /\ fl.email_normalized = src.email_normalized
         THEN {[match_type |-> "email_exact", confidence |-> 10000]} ELSE {})
        \cup
        (IF Len(src.phone_normalized) >= 10 /\ fl.phone_normalized = src.phone_normalized
         THEN {[match_type |-> "phone_exact", confidence |-> 9500]} ELSE {})
        \cup
        (IF src.property_address_normalized # <<>> /\ fl.address_normalized # <<>>
            /\ SimilarEnough(sim)
         THEN {[match_type |-> "address_fuzzy", confidence |-> Scaled(sim)]} ELSE {})

\* select distinct on (fub_lead_id) ... order by fub_lead_id, confidence desc:
\* one row of maximal confidence per fub lead (which one, on a tie, is not fixed)
BestSignals(s, f) ==
  { b \in Signals(s, f) : \A o \in Signals(s, f) : b.confidence >= o.confidence }

RECURSIVE RowsFor(_, _)
RowsFor(s, fs) ==
  IF fs = <<>> THEN { <<>> }
  ELSE { <<[fub_lead_id |-> Head(fs), match_type |-> b.match_type,
            confidence |-> b.confidence]>> \o rest :
           b \in BestSignals(s, Head(fs)), rest \in RowsFor(s, Tail(fs)) }

MaxResults == 5

\* the possible results of find_fub_matches(s, max): rows in fub_lead_id order, cut at max
FindFubMatches(s, max) ==
  LET fs == SetToSortedSeq({ f \in FubIds : Signals(s, f) # {} })
  IN { SubSeq(r, 1, IF Len(r) < max THEN Len(r) ELSE max) : r \in RowsFor(s, fs) }


(***************************************************************************)
(* MATCHER: processMatches, one database call per step                     *)
(***************************************************************************)
AUTO_MATCH == 9000
REJECT_THRESHOLD == 4000

MIdle == [pc |-> "idle", lead |-> 0, matches |-> <<>>, hadActive |-> FALSE]
RIdle == [pc |-> "idle", candidate |-> <<0, 0>>, confidence_score |-> 0, status |-> "none"]

ActiveMatches(s) ==
  { m \in lead_matches : m.source_lead_id = s /\ m.status = "active" }
PendingCandidates(s) ==
  { c \in match_candidates : c.source_lead_id = s /\ c.status = "pending" }

\* matches.find((m) => m.confidence >= AUTO_MATCH): the first such row, as a set
AutoMatchOf(matches) ==
  LET idx == { i \in 1..Len(matches) : matches[i].confidence >= AUTO_MATCH }
  IN IF idx = {} THEN {}
     ELSE { matches[CHOOSE i \in idx : \A j \in idx : i <= j] }

\* matches.filter(REJECT_THRESHOLD <= confidence < AUTO_MATCH)
CandidatesOf(matches) ==
  { matches[i] : i \in { j \in 1..Len(matches) :
        matches[j].confidence >= REJECT_THRESHOLD /\ matches[j].confidence < AUTO_MATCH } }

\* the agent lookup of processMatches and approveCandidate: fub_leads by id, then
\* agents by fub_user_id alone, each with .single(); 0 is null
Attribution(f) ==
  LET uid == fub_leads[f].assigned_user_id
      agent == IF uid = 0 THEN {} ELSE SelectSingle({ a \in Agents : a.fub_user_id = uid })
  IN IF agent = {} THEN [agent_id |-> 0, team_id |-> 0]
     ELSE LET a == CHOOSE x \in agent : TRUE IN [agent_id |-> a.id, team_id |-> a.team_id]

MatchRow(s, f, type, conf, by) ==
  [source_lead_id |-> s, fub_lead_id |-> f, match_type |-> type, match_confidence |-> conf,
   matched_by |-> by, attributed_agent_id |-> Attribution(f).agent_id,
   attributed_team_id |-> Attribution(f).team_id, status |-> "active"]

\* unique(source_lead_id, fub_lead_id) on lead_matches
MatchExists(s, f) ==
  \E m \in lead_matches : m.source_lead_id = s /\ m.fub_lead_id = f

\* fub-sync upsert of one CRM person: the corpus the matcher reads changes
SyncFubLead(f, p) ==
  /\ syncs < MaxSyncs
  /\ fub_leads[f] # p
  /\ fub_leads' = [fub_leads EXCEPT ![f] = p]
  /\ syncs' = syncs + 1
  /\ UNCHANGED <<source_leads, lead_matches, match_candidates, data_lineage, mrun, rrun>>
  /\ UNCHANGED <<stageVars, embedVars, normVars, transformVars, syncVars, connVars, pageVars, logVars>>

\* lead-matcher handler, loop body for one lead id (explicit source_lead_ids are
\* taken whatever their match_status): load the lead, call find_fub_matches
MatcherStart(s, ms) ==
  /\ mrun.pc = "idle"
  /\ ms \in FindFubMatches(s, MaxResults)
  /\ mrun' = [pc |-> "found", lead |-> s, matches |-> ms,
              hadActive |-> ActiveMatches(s) # {}]
  /\ UNCHANGED <<fub_leads, source_leads, lead_matches, match_candidates, data_lineage, rrun, syncs>>
  /\ UNCHANGED <<stageVars, embedVars, normVars, transformVars, syncVars, connVars, pageVars, logVars>>

\* no row at all, or no row in any band: match_status = unmatched
MatcherUnmatched ==
  /\ mrun.pc = "found"
  /\ AutoMatchOf(mrun.matches) = {} /\ CandidatesOf(mrun.matches) = {}
  /\ source_leads' = [source_leads EXCEPT ![mrun.lead].match_status = "unmatched"]
  /\ mrun' = MIdle
  /\ UNCHANGED <<fub_leads, lead_matches, match_candidates, data_lineage, rrun, syncs>>
  /\ UNCHANGED <<stageVars, embedVars, normVars, transformVars, syncVars, connVars, pageVars, logVars>>

\* auto path: insert into lead_matches; a unique violation throws out of processMatches
MatcherInsertMatch ==
  /\ mrun.pc = "found"
  /\ AutoMatchOf(mrun.matches) # {}
  /\ LET a == CHOOSE x \in AutoMatchOf(mrun.matches) : TRUE
     IN IF MatchExists(mrun.lead, a.fub_lead_id)
        THEN /\ mrun' = MIdle
             /\ UNCHANGED lead_matches
        ELSE /\ lead_matches' = lead_matches \cup
                  { MatchRow(mrun.lead, a.fub_lead_id, a.match_type, a.confidence, "system") }
             /\ mrun' = [mrun EXCEPT !.pc = "inserted"]
  /\ UNCHANGED <<fub_leads, source_leads, match_candidates, data_lineage, rrun, syncs>>
  /\ UNCHANGED <<stageVars, embedVars, normVars, transformVars, syncVars, connVars, pageVars, logVars>>

\* auto path: update source_leads
MatcherUpdateLead ==
  /\ mrun.pc = "inserted"
  /\ LET a == CHOOSE x \in AutoMatchOf(mrun.matches) : TRUE
     IN source_leads' = [source_leads EXCEPT ![mrun.lead] =
            [match_status |-> "matched", match_confidence |-> a.confidence]]
  /\ mrun' = [mrun EXCEPT !.pc = "updated"]
  /\ UNCHANGED <<fub_leads, lead_matches, match_candidates, data_lineage, rrun, syncs>>
  /\ UNCHANGED <<stageVars, embedVars, normVars, transformVars, syncVars, connVars, pageVars, logVars>>

\* auto path: insert into data_lineage
MatcherLineage ==
  /\ mrun.pc = "updated"
  /\ LET a == CHOOSE x \in AutoMatchOf(mrun.matches) : TRUE
     IN data_lineage' = data_lineage \cup
          { [source_id |-> mrun.lead, target_id |-> <<mrun.lead, a.fub_lead_id>>,
             operation |-> "create", performed_by |-> "system"] }
  /\ mrun' = MIdle
  /\ UNCHANGED <<fub_leads, source_leads, lead_matches, match_candidates, rrun, syncs>>
  /\ UNCHANGED <<stageVars, embedVars, normVars, transformVars, syncVars, connVars, pageVars, logVars>>

\* upsert(candidateInserts, onConflict: source_lead_id,fub_lead_id): an existing row
\* gets the new score and reasons and keeps its status; a new row is pending
UpsertCandidates(s, cs) ==
  { IF \E c \in cs : c.fub_lead_id = r.fub_lead_id /\ r.source_lead_id = s
    THEN LET c == CHOOSE x \in cs : x.fub_lead_id = r.fub_lead_id
         IN [r EXCEPT !.confidence_score = c.confidence, !.match_type = c.match_type]
    ELSE r : r \in match_candidates }
  \cup
  { [source_lead_id |-> s, fub_lead_id |-> c.fub_lead_id, confidence_score |-> c.confidence,
     match_type |-> c.match_type, status |-> "pending", lead_match_id |-> <<0, 0>>] :
      c \in { x \in cs : ~\E r \in match_candidates :
                  r.source_lead_id = s /\ r.fub_lead_id = x.fub_lead_id } }

\* review path: one upsert of all candidates
MatcherUpsertCandidates ==
  /\ mrun.pc = "found"
  /\ AutoMatchOf(mrun.matches) = {} /\ CandidatesOf(mrun.matches) # {}
  /\ match_candidates' = UpsertCandidates(mrun.lead, CandidatesOf(mrun.matches))
  /\ mrun' = [mrun EXCEPT !.pc = "upserted"]
  /\ UNCHANGED <<fub_leads, source_leads, lead_matches, data_lineage, rrun, syncs>>
  /\ UNCHANGED <<stageVars, embedVars, normVars, transformVars, syncVars, connVars, pageVars, logVars>>

\* review path: update source_leads to review / multiple
MatcherReviewStatus ==
  /\ mrun.pc = "upserted"
  /\ LET cs == CandidatesOf(mrun.matches)
         top == CHOOSE c \in cs : \A o \in cs : c.confidence >= o.confidence
     IN source_leads' = [source_leads EXCEPT ![mrun.lead] =
            [match_status |-> IF Cardinality(cs) > 1 THEN "multiple" ELSE "review",
             match_confidence |-> top.confidence]]
  /\ mrun' = MIdle
  /\ UNCHANGED <<fub_leads, lead_matches, match_candidates, data_lineage, rrun, syncs>>
  /\ UNCHANGED <<stageVars, embedVars, normVars, transformVars, syncVars, connVars, pageVars, logVars>>


(***************************************************************************)
(* REVIEW RESOLVER: approveCandidate, rejectCandidate                      *)
(***************************************************************************)
CandidateIds == { <<c.source_lead_id, c.fub_lead_id>> : c \in match_candidates }
CandidateRow(id) ==
  CHOOSE c \in match_candidates : c.source_lead_id = id[1] /\ c.fub_lead_id = id[2]

\* select * from match_candidates where id = candidateId: any status is accepted
ApproveStart(id) ==
  /\ rrun.pc = "idle"
  /\ id \in CandidateIds
  /\ rrun' = [pc |-> "loaded", candidate |-> id,
              confidence_score |-> CandidateRow(id).confidence_score,
              status |-> CandidateRow(id).status]
  /\ UNCHANGED <<fub_leads, source_leads, lead_matches, match_candidates, data_lineage, mrun, syncs>>
  /\ UNCHANGED <<stageVars, embedVars, normVars, transformVars, syncVars, connVars, pageVars, logVars>>

\* insert into lead_matches (match_type manual); a unique violation throws
ApproveInsertMatch ==
  /\ rrun.pc = "loaded"
  /\ LET s == rrun.candidate[1]
         f == rrun.candidate[2]
     IN IF MatchExists(s, f)
        THEN /\ rrun' = RIdle
             /\ UNCHANGED lead_matches
        ELSE /\ lead_matches' = lead_matches \cup
                  { MatchRow(s, f, "manual", rrun.confidence_score, "manual") }
             /\ rrun' = [rrun EXCEPT !.pc = "inserted"]
  /\ UNCHANGED <<fub_leads, source_leads, match_candidates, data_lineage, mrun, syncs>>
  /\ UNCHANGED <<stageVars, embedVars, normVars, transformVars, syncVars, connVars, pageVars, logVars>>

\* update match_candidates set status = approved, lead_match_id where id = candidateId
ApproveUpdateCandidate ==
  /\ rrun.pc = "inserted"
  /\ match_candidates' =
       { IF <<c.source_lead_id, c.fub_lead_id>> = rrun.candidate
         THEN [c EXCEPT !.status = "approved", !.lead_match_id = rrun.candidate]
         ELSE c : c \in match_candidates }
  /\ rrun' = [rrun EXCEPT !.pc = "candidate_updated"]
  /\ UNCHANGED <<fub_leads, source_leads, lead_matches, data_lineage, mrun, syncs>>
  /\ UNCHANGED <<stageVars, embedVars, normVars, transformVars, syncVars, connVars, pageVars, logVars>>

\* update source_leads set match_status = matched, match_confidence
ApproveUpdateLead ==
  /\ rrun.pc = "candidate_updated"
  /\ source_leads' = [source_leads EXCEPT ![rrun.candidate[1]] =
         [match_status |-> "matched", match_confidence |-> rrun.confidence_score]]
  /\ rrun' = [rrun EXCEPT !.pc = "lead_updated"]
  /\ UNCHANGED <<fub_leads, lead_matches, match_candidates, data_lineage, mrun, syncs>>
  /\ UNCHANGED <<stageVars, embedVars, normVars, transformVars, syncVars, connVars, pageVars, logVars>>

\* update match_candidates set status = rejected where source_lead_id = ... and
\* id <> candidateId and status = pending
ApproveRejectOthers ==
  /\ rrun.pc = "lead_updated"
  /\ match_candidates' =
       { IF c.source_lead_id = rrun.candidate[1]
            /\ <<c.source_lead_id, c.fub_lead_id>> # rrun.candidate
            /\ c.status = "pending"
         THEN [c EXCEPT !.status = "rejected"]
         ELSE c : c \in match_candidates }
  /\ rrun' = RIdle
  /\ UNCHANGED <<fub_leads, source_leads, lead_matches, data_lineage, mrun, syncs>>
  /\ UNCHANGED <<stageVars, embedVars, normVars, transformVars, syncVars, connVars, pageVars, logVars>>

\* rejectCandidate: one update by id, whatever the candidate's status
RejectCandidate(id) ==
  /\ id \in CandidateIds
  /\ match_candidates' =
       { IF <<c.source_lead_id, c.fub_lead_id>> = id
         THEN [c EXCEPT !.status = "rejected"]
         ELSE c : c \in match_candidates }
  /\ UNCHANGED <<fub_leads, source_leads, lead_matches, data_lineage, mrun, rrun, syncs>>
  /\ UNCHANGED <<stageVars, embedVars, normVars, transformVars, syncVars, connVars, pageVars, logVars>>

InitMatch ==
  /\ fub_leads = [f \in FubIds |-> Absent]
  /\ source_leads = [s \in SrcIds |-> [match_status |-> "pending", match_confidence |-> 0]]
  /\ lead_matches = {}
  /\ match_candidates = {}
  /\ data_lineage = {}
  /\ mrun = MIdle
  /\ rrun = RIdle
  /\ syncs = 0

NextMatch ==
  \/ \E f \in FubIds, p \in FubProfiles : SyncFubLead(f, p)
  \/ \E s \in SrcIds : \E ms \in FindFubMatches(s, MaxResults) : MatcherStart(s, ms)
  \/ MatcherUnmatched
  \/ MatcherInsertMatch
  \/ MatcherUpdateLead
  \/ MatcherLineage
  \/ MatcherUpsertCandidates
  \/ MatcherReviewStatus
  \/ \E id \in CandidateIds : ApproveStart(id)
  \/ ApproveInsertMatch
  \/ ApproveUpdateCandidate
  \/ ApproveUpdateLead
  \/ ApproveRejectOthers
  \/ \E id \in CandidateIds : RejectCandidate(id)


(***************************************************************************)
(* INGESTION STAGER: the email-ingest handler, one request per run         *)
(***************************************************************************)
StageReqs == 1..MaxStageReqs
Files == {"fileA", "fileB"}

\* computeHash: SHA-256 of the content, distinct for distinct contents
ComputeHash(file) == IF file = "fileA" THEN "hashA" ELSE "hashB"

\* the attachment lists of one email
AttachmentLists == UNION { [1..n -> Files] : n \in 1..MaxAttachments }

SIdle == [pc |-> "idle", org |-> 0, atts |-> <<>>, i |-> 0, ids |-> <<>>,
          skipped |-> {}, created |-> 0, uploaded |-> 0, alone |-> TRUE]

InFlight == { r \in StageReqs : srun[r].pc # "idle" }

\* the request arrives with its organization resolved and its CSV attachments read
StageBegin(r, org, atts) ==
  /\ srun[r].pc = "idle"
  /\ Len(stage_hist) + Cardinality(InFlight) < MaxHist
  /\ srun' = [q \in StageReqs |->
                IF q = r
                THEN [SIdle EXCEPT !.pc = "check", !.org = org, !.atts = atts, !.i = 1,
                                   !.alone = (InFlight = {})]
                ELSE IF q \in InFlight THEN [srun[q] EXCEPT !.alone = FALSE] ELSE srun[q]]
  /\ UNCHANGED <<raw_ingestions, blobs, parse_triggers, stage_hist>>
  /\ UNCHANGED <<matchVars, embedVars, normVars, transformVars, syncVars, connVars, pageVars, logVars>>

\* after the current attachment: the next one, or the response
Advance(run) ==
  IF run.i < Len(run.atts) THEN [run EXCEPT !.pc = "check", !.i = run.i + 1]
  ELSE [run EXCEPT !.pc = "respond"]

\* select id from raw_ingestions where file_hash = fileHash, .single()
Existing(org, hash) ==
  SelectSingle({ b \in 1..Len(raw_ingestions) : raw_ingestions[b].file_hash = hash })

\* the duplicate check of one attachment: "continue" on a hit
StageCheck(r) ==
  /\ srun[r].pc = "check"
  /\ LET run == srun[r]
         hash == ComputeHash(run.atts[run.i])
         existing == Existing(run.org, hash)
     IN srun' = [srun EXCEPT ![r] =
          IF existing # {}
          THEN Advance([run EXCEPT !.skipped = @ \cup { <<hash, b>> : b \in existing }])
          ELSE [run EXCEPT !.pc = "insert"]]
  /\ UNCHANGED <<raw_ingestions, blobs, parse_triggers, stage_hist>>
  /\ UNCHANGED <<matchVars, embedVars, normVars, transformVars, syncVars, connVars, pageVars, logVars>>

\* upload the file, insert the raw_ingestions row (ok = the insert succeeded),
\* and post its id to csv-parser
StageInsert(r, ok) ==
  /\ srun[r].pc = "insert"
  /\ LET run == srun[r]
         id == Len(raw_ingestions) + 1
     IN /\ blobs' = blobs + 1
        /\ IF ok
           THEN /\ raw_ingestions' = Append(raw_ingestions,
                     [organization_id |-> run.org, file_hash |-> ComputeHash(run.atts[run.i]),
                      status |-> "pending", processing_log |-> <<"email_received">>])
                /\ parse_triggers' = Append(parse_triggers, id)
                /\ srun' = [srun EXCEPT ![r] =
                     Advance([run EXCEPT !.ids = Append(@, id), !.created = @ + 1,
                                         !.uploaded = @ + 1])]
           ELSE /\ UNCHANGED <<raw_ingestions, parse_triggers>>
                /\ srun' = [srun EXCEPT ![r] = Advance([run EXCEPT !.uploaded = @ + 1])]
  /\ UNCHANGED stage_hist
  /\ UNCHANGED <<matchVars, embedVars, normVars, transformVars, syncVars, connVars, pageVars, logVars>>

\* jsonResponse({ingestion_ids}): the request is over
StageRespond(r) ==
  /\ srun[r].pc = "respond"
  /\ stage_hist' = Append(stage_hist,
         [org |-> srun[r].org, atts |-> srun[r].atts, ids |-> srun[r].ids,
          skipped |-> srun[r].skipped, created |-> srun[r].created,
          uploaded |-> srun[r].uploaded, alone |-> srun[r].alone])
  /\ srun' = [srun EXCEPT ![r] = SIdle]
  /\ UNCHANGED <<raw_ingestions, blobs, parse_triggers>>
  /\ UNCHANGED <<matchVars, embedVars, normVars, transformVars, syncVars, connVars, pageVars, logVars>>

InitStage ==
  /\ raw_ingestions = <<>>
  /\ blobs = 0
  /\ parse_triggers = <<>>
  /\ srun = [r \in StageReqs |-> SIdle]
  /\ stage_hist = <<>>

NextStage ==
  \/ \E r \in StageReqs, org \in Orgs, atts \in AttachmentLists : StageBegin(r, org, atts)
  \/ \E r \in StageReqs : StageCheck(r)
  \/ \E r \in StageReqs, ok \in BOOLEAN : StageInsert(r, ok)
  \/ \E r \in StageReqs : StageRespond(r)


(***************************************************************************)
(* EMBEDDING QUEUE: queueForEmbedding, processEmbeddingQueue               *)
(***************************************************************************)
TaskIds == 1..MaxTasks       \* one task per (table_name, record_id), in created_at order
Workers == 1..MaxWorkers
Texts == 1..MaxTexts         \* text_to_embed values; 0 is "no text"
MaxAttempts == 3

NoTask == [exists |-> FALSE, status |-> "none", attempts |-> 0, text_to_embed |-> 0,
           last_error |-> FALSE]
WIdle == [pc |-> "idle", items |-> <<>>, i |-> 0]

\* the log of a task that was enqueued again, taken by two passes at once, or whose
\* target row could not be written: its passes are no longer counted
NotSerial == [serial |-> FALSE, passes |-> 0, provider_failures |-> 0]

ItemIds(w) == { wrun[w].items[k].id : k \in 1..Len(wrun[w].items) }

\* a run holds the task: it has selected it and not yet returned (a crashed run
\* holds nothing)
Held(t) == \E w \in Workers : wrun[w].pc # "idle" /\ t \in ItemIds(w)

\* upsert on (table_name, record_id): status pending, attempts 0 and the new text,
\* whatever the row held; last_error is not in the payload
QueueForEmbedding(t, text) ==
  /\ enqueues < MaxEnqueues
  /\ (IF t = 1 THEN TRUE ELSE embedding_queue[t - 1].exists)
  /\ enqueues' = enqueues + 1
  /\ embedding_queue' = [embedding_queue EXCEPT ![t] =
         [exists |-> TRUE, status |-> "pending", attempts |-> 0, text_to_embed |-> text,
          last_error |-> embedding_queue[t].last_error]]
  /\ pass_log' = [pass_log EXCEPT ![t] = IF embedding_queue[t].exists THEN NotSerial ELSE @]
  /\ UNCHANGED <<target_rows, wrun>>
  /\ UNCHANGED <<matchVars, stageVars, normVars, transformVars, syncVars, connVars, pageVars, logVars>>

\* select * where status = pending and attempts < maxAttempts order by created_at limit n
FetchPending(n, maxAttempts) ==
  LET ids == SetToSortedSeq({ t \in TaskIds :
                 /\ embedding_queue[t].exists
                 /\ embedding_queue[t].status = "pending"
                 /\ embedding_queue[t].attempts < maxAttempts })
      cut == SubSeq(ids, 1, IF Len(ids) < n THEN Len(ids) ELSE n)
  IN [k \in 1..Len(cut) |->
        [id |-> cut[k], attempts |-> embedding_queue[cut[k]].attempts,
         text_to_embed |-> embedding_queue[cut[k]].text_to_embed]]

\* the select of a worker run; an empty result returns at once (a new request is
\* served whether the last one returned or crashed)
WorkerFetch(w, batchSize) ==
  /\ wrun[w].pc \in {"idle", "crashed"}
  /\ FetchPending(batchSize, MaxAttempts) # <<>>
  /\ wrun' = [wrun EXCEPT ![w] =
         [pc |-> "mark", items |-> FetchPending(batchSize, MaxAttempts), i |-> 0]]
  /\ LET got == { FetchPending(batchSize, MaxAttempts)[k].id :
                    k \in 1..Len(FetchPending(batchSize, MaxAttempts)) }
     IN pass_log' = [t \in TaskIds |->
          IF t \in got
          THEN (IF Held(t) \/ ~pass_log[t].serial THEN NotSerial
                ELSE [pass_log[t] EXCEPT !.passes = @ + 1])
          ELSE pass_log[t]]
  /\ UNCHANGED <<embedding_queue, target_rows, enqueues>>
  /\ UNCHANGED <<matchVars, stageVars, normVars, transformVars, syncVars, connVars, pageVars, logVars>>

\* update embedding_queue set status = processing where id in (itemIds)
WorkerMark(w) ==
  /\ wrun[w].pc = "mark"
  /\ embedding_queue' = [t \in TaskIds |->
         IF t \in ItemIds(w) THEN [embedding_queue[t] EXCEPT !.status = "processing"]
         ELSE embedding_queue[t]]
  /\ wrun' = [wrun EXCEPT ![w].pc = "generate"]
  /\ UNCHANGED <<target_rows, enqueues, pass_log>>
  /\ UNCHANGED <<matchVars, stageVars, normVars, transformVars, syncVars, connVars, pageVars, logVars>>

\* generateEmbeddings(texts): one provider request for the whole batch
WorkerGenerate(w, ok) ==
  /\ wrun[w].pc = "generate"
  /\ wrun' = [wrun EXCEPT ![w].pc = IF ok THEN "write" ELSE "reset", ![w].i = 1]
  /\ pass_log' = [t \in TaskIds |->
         IF ~ok /\ t \in ItemIds(w) /\ pass_log[t].serial
         THEN [pass_log[t] EXCEPT !.provider_failures = @ + 1]
         ELSE pass_log[t]]
  /\ UNCHANGED <<embedding_queue, target_rows, enqueues>>
  /\ UNCHANGED <<matchVars, stageVars, normVars, transformVars, syncVars, connVars, pageVars, logVars>>

\* after item i: the next item, or the return
NextItem(run) ==
  IF run.i < Len(run.items) THEN [run EXCEPT !.i = run.i + 1] ELSE WIdle

\* the revert without the attempts column
RevertedKeepAttempts(row, item) ==
  [row EXCEPT !.status = "pending", !.last_error = TRUE]

\* what both catch blocks write for an item
Reverted(row, item) ==
  [row EXCEPT !.status = "pending", !.attempts = item.attempts + 1, !.last_error = TRUE]

\* item i of the loop: write the embedding onto the target row (ok: the update
\* succeeded) and mark the task completed, or revert the task
WorkerWrite(w, ok) ==
  /\ wrun[w].pc = "write"
  /\ LET item == wrun[w].items[wrun[w].i]
     IN IF ok
        THEN /\ target_rows' = [target_rows EXCEPT ![item.id] =
                    [embedded |-> TRUE, embedding_text |-> item.text_to_embed]]
             /\ embedding_queue' = [embedding_queue EXCEPT ![item.id].status = "completed"]
             /\ UNCHANGED pass_log
        ELSE /\ embedding_queue' = [embedding_queue EXCEPT ![item.id] = Reverted(@, item)]
             /\ pass_log' = [pass_log EXCEPT ![item.id] = NotSerial]
             /\ UNCHANGED target_rows
  /\ wrun' = [wrun EXCEPT ![w] = NextItem(@)]
  /\ UNCHANGED enqueues
  /\ UNCHANGED <<matchVars, stageVars, normVars, transformVars, syncVars, connVars, pageVars, logVars>>

\* the provider request failed: revert item i
WorkerReset(w) ==
  /\ wrun[w].pc = "reset"
  /\ LET item == wrun[w].items[wrun[w].i]
     IN embedding_queue' = [embedding_queue EXCEPT ![item.id] = Reverted(@, item)]
  /\ wrun' = [wrun EXCEPT ![w] = NextItem(@)]
  /\ UNCHANGED <<target_rows, enqueues, pass_log>>
  /\ UNCHANGED <<matchVars, stageVars, normVars, transformVars, syncVars, connVars, pageVars, logVars>>

\* the worker dies between two statements (the edge function is killed at its time
\* limit, or the process fails): nothing more is written by the run
WorkerCrash(w) ==
  /\ wrun[w].pc \notin {"idle", "crashed"}
  /\ wrun' = [wrun EXCEPT ![w] = [WIdle EXCEPT !.pc = "crashed"]]
  /\ pass_log' = [t \in TaskIds |-> IF t \in ItemIds(w) THEN NotSerial ELSE pass_log[t]]
  /\ UNCHANGED <<embedding_queue, target_rows, enqueues>>
  /\ UNCHANGED <<matchVars, stageVars, normVars, transformVars, syncVars, connVars, pageVars, logVars>>

InitEmbed ==
  /\ embedding_queue = [t \in TaskIds |-> NoTask]
  /\ target_rows = [t \in TaskIds |-> [embedded |-> FALSE, embedding_text |-> 0]]
  /\ wrun = [w \in Workers |-> WIdle]
  /\ enqueues = 0
  /\ pass_log = [t \in TaskIds |-> [serial |-> TRUE, passes |-> 0, provider_failures |-> 0]]

NextEmbed ==
  \/ \E t \in TaskIds, text \in Texts : QueueForEmbedding(t, text)
  \/ \E w \in Workers, n \in 1..MaxTasks : WorkerFetch(w, n)
  \/ \E w \in Workers : WorkerMark(w)
  \/ \E w \in Workers, ok \in BOOLEAN : WorkerGenerate(w, ok)
  \/ \E w \in Workers, ok \in BOOLEAN : WorkerWrite(w, ok)
  \/ \E w \in Workers : WorkerReset(w)
  \/ \E w \in Workers : WorkerCrash(w)

(***************************************************************************)
(* NORMALIZER: a value is normalized, and the stored result normalized again *)
(***************************************************************************)
\* the characters of the values: a letter in upper and lower case, blank, tab,
\* a digit, punctuation and the backspace
NormChars == {"N", "n", " ", "\t", "5", "-", "BS"}
NormKinds == {"phone", "address", "email"}
NormInputs == UNION { [1..k -> NormChars] : k \in 0..MaxStrLen }

NIdle == [pc |-> "idle", kind |-> "none", input |-> <<>>, once |-> <<>>, twice |-> <<>>]

\* the normalizer of a column
Normalize(kind, x) ==
  CASE kind = "phone" -> NormalizePhone(x)
    [] kind = "address" -> NormalizeAddress(x)
    [] OTHER -> NormalizeEmail(x)

\* a row is written with the value x: the trigger (or the generated column) stores
\* its normalization
NormalizeOnce(kind, x) ==
  /\ norm.pc = "idle"
  /\ norm' = [pc |-> "once", kind |-> kind, input |-> x, once |-> Normalize(kind, x),
              twice |-> <<>>]
  /\ UNCHANGED <<matchVars, stageVars, embedVars, transformVars, syncVars, connVars, pageVars, logVars>>

\* the stored value is written back as the value of a row and normalized again
NormalizeTwice ==
  /\ norm.pc = "once"
  /\ norm' = [norm EXCEPT !.pc = "twice", !.twice = Normalize(norm.kind, norm.once)]
  /\ UNCHANGED <<matchVars, stageVars, embedVars, transformVars, syncVars, connVars, pageVars, logVars>>

\* the next value
NormalizeNext ==
  /\ norm.pc = "twice"
  /\ norm' = NIdle
  /\ UNCHANGED <<matchVars, stageVars, embedVars, transformVars, syncVars, connVars, pageVars, logVars>>

InitNorm == norm = NIdle

NextNorm ==
  \/ \E kind \in NormKinds, x \in NormInputs : NormalizeOnce(kind, x)
  \/ NormalizeTwice
  \/ NormalizeNext

(***************************************************************************)
(* CSV-PARSER and LEAD-TRANSFORMER on the ingestions (batches) of one       *)
(* organization and lead source; every database call is one step           *)
(***************************************************************************)
TransformReqs == 1..MaxTransformReqs
Batches == 1..MaxBatches

\* the email column of a CSV row: two spellings of one address, another address,
\* an address with a blank in front, and no email
RawEmails == { <<"N">>, <<"n">>, <<"5">>, <<" ", "n">>, <<>> }

RECURSIVE JsTrim(_)
\* String.prototype.trim(): white space of any kind is removed from both ends
JsTrim(x) ==
  IF x # <<>> /\ Head(x) \in WhiteSpace THEN JsTrim(Tail(x))
  ELSE IF x # <<>> /\ x[Len(x)] \in WhiteSpace THEN JsTrim(SubSeq(x, 1, Len(x) - 1))
  ELSE x

\* validateRow with the default rules: email is required, and the untrimmed value
\* must match /^[^\s@]+@[^\s@]+\.[^\s@]+$/ (of which the model keeps "no white space")
ValidateRow(email) ==
  /\ JsTrim(email) # <<>>
  /\ \A i \in 1..Len(email) : email[i] \notin WhiteSpace

\* mapFields: the trimmed value, or null (<<>>)
MapFields(email) == JsTrim(email)

\* normalized.email.toLowerCase().trim()
DedupKey(email) == JsTrim(Lower(email))

TIdle == [pc |-> "idle", duplicate_rows |-> 0, rows |-> <<>>, i |-> 0,
          createdCount |-> 0, duplicateCount |-> 0, sourceLeadIds |-> <<>>,
          existing |-> 0, lead |-> 0, before |-> <<>>, batch |-> 0]

PIdle == [pc |-> "idle", emails |-> <<>>, parses |-> 0]

\* the CSV files: one to MaxRows rows, of which the model keeps the email column
CsvFiles == UNION { [1..n -> RawEmails] : n \in 1..MaxRows }

\* csv-parser: select the ingestion, then set its status to processing (the
\* ingestions are parsed one after the other, in the order the stager posted them)
ParseBegin(b) ==
  /\ \A q \in Batches : prun[q].pc = "idle"
  /\ prun[b].parses < MaxParses
  /\ b > 1 => prun[b - 1].parses > 0
  /\ prun' = [prun EXCEPT ![b].pc = "download", ![b].parses = @ + 1]
  /\ ingestion' = [ingestion EXCEPT ![b].status = "processing"]
  /\ UNCHANGED <<raw_lead_rows, created_leads, row_lineage, lead_tasks, match_requests,
                 trun, transforms>>
  /\ UNCHANGED <<matchVars, stageVars, embedVars, normVars, syncVars, connVars, pageVars, logVars>>

\* updateIngestionError: the download failed or the file is no CSV; status failed
ParseFail(b) ==
  /\ prun[b].pc = "download"
  /\ prun' = [prun EXCEPT ![b].pc = "idle"]
  /\ ingestion' = [ingestion EXCEPT ![b].status = "failed"]
  /\ UNCHANGED <<raw_lead_rows, created_leads, row_lineage, lead_tasks, match_requests,
                 trun, transforms>>
  /\ UNCHANGED <<matchVars, stageVars, embedVars, normVars, syncVars, connVars, pageVars, logVars>>

\* the file is downloaded and parsed into rows; update raw_ingestions set
\* total_rows = rows.length
ParseTotal(b, emails) ==
  /\ prun[b].pc = "download"
  /\ Len(raw_lead_rows) + Len(emails) <= MaxRows
  /\ prun' = [prun EXCEPT ![b].pc = "insert", ![b].emails = emails]
  /\ ingestion' = [ingestion EXCEPT ![b].total_rows = Len(emails)]
  /\ UNCHANGED <<raw_lead_rows, created_leads, row_lineage, lead_tasks, match_requests,
                 trun, transforms>>
  /\ UNCHANGED <<matchVars, stageVars, embedVars, normVars, syncVars, connVars, pageVars, logVars>>

\* validCount: the rows validateRow accepts
ValidCount(emails) == Cardinality({ k \in 1..Len(emails) : ValidateRow(emails[k]) })

\* errorCount: the rows validateRow refuses
ErrorCount(emails) == Cardinality({ k \in 1..Len(emails) : ~ValidateRow(emails[k]) })

\* the validated rows as they are inserted into raw_lead_rows
RawRows(b, emails) ==
  [k \in 1..Len(emails) |->
     [ingestion_id |-> b, email |-> emails[k], is_valid |-> ValidateRow(emails[k]),
      is_duplicate |-> FALSE, duplicate_of |-> 0, source_lead_id |-> 0]]

\* insert into raw_lead_rows (the rows of a file fit one batch of 500); an insert
\* error is logged and the handler goes on (ok: the insert succeeded)
ParseInsert(b, ok) ==
  /\ prun[b].pc = "insert"
  /\ prun' = [prun EXCEPT ![b].pc = "finish"]
  /\ raw_lead_rows' = IF ok THEN raw_lead_rows \o RawRows(b, prun[b].emails)
                      ELSE raw_lead_rows
  /\ UNCHANGED <<ingestion, created_leads, row_lineage, lead_tasks, match_requests,
                 trun, transforms>>
  /\ UNCHANGED <<matchVars, stageVars, embedVars, normVars, syncVars, connVars, pageVars, logVars>>

\* update raw_ingestions: parsed, parsed_rows = rows.length, valid_rows = validCount,
\* error_rows = errorCount; the last statement posts to lead-transformer
ParseFinish(b) ==
  /\ prun[b].pc = "finish"
  /\ prun' = [prun EXCEPT ![b].pc = "idle", ![b].emails = <<>>]
  /\ ingestion' = [ingestion EXCEPT ![b].status = "parsed",
         ![b].parsed_rows = Len(prun[b].emails),
         ![b].valid_rows = ValidCount(prun[b].emails),
         ![b].error_rows = ErrorCount(prun[b].emails)]
  /\ UNCHANGED <<raw_lead_rows, created_leads, row_lineage, lead_tasks, match_requests,
                 trun, transforms>>
  /\ UNCHANGED <<matchVars, stageVars, embedVars, normVars, syncVars, connVars, pageVars, logVars>>

\* the raw_lead_rows ids of batch b
RowIds(b) == { k \in 1..Len(raw_lead_rows) : raw_lead_rows[k].ingestion_id = b }

\* the source_leads ids created from rows of batch b
LeadIds(b) == { l \in 1..Len(created_leads) : created_leads[l].raw_row_id \in RowIds(b) }

\* the batch as the tables hold it: the ingestion with its status and counters, its
\* raw rows, its canonical leads, their lineage rows and their embedding tasks
BatchState(b) ==
  <<ingestion[b],
    [k \in RowIds(b) |-> raw_lead_rows[k]],
    [l \in LeadIds(b) |-> created_leads[l]],
    SelectSeq(row_lineage, LAMBDA x : x.source_id \in RowIds(b)),
    lead_tasks \cap LeadIds(b)>>

\* the request is a repeated one: the batch was completed by an earlier request, and
\* neither the parser nor another transformer request is at work on it
Rerun(b) ==
  /\ ingestion[b].status = "completed"
  /\ transforms >= 1
  /\ prun[b].pc = "idle"
  /\ \A q \in TransformReqs : trun[q].pc = "idle"

\* lead-transformer: select the ingestion, then set its status to transforming
\* (before: the batch as a repeated request found it, kept for the properties)
TransformBegin(r, b) ==
  /\ trun[r].pc = "idle"
  /\ transforms < MaxTransforms
  /\ ingestion[b].status # "pending"
  /\ transforms' = transforms + 1
  /\ trun' = [trun EXCEPT ![r] =
         [TIdle EXCEPT !.pc = "fetch", !.batch = b,
                       !.duplicate_rows = ingestion[b].duplicate_rows,
                       !.before = IF Rerun(b) THEN BatchState(b) ELSE <<>>]]
  /\ ingestion' = [ingestion EXCEPT ![b].status = "transforming"]
  /\ UNCHANGED <<raw_lead_rows, created_leads, row_lineage, lead_tasks, match_requests>>
  /\ UNCHANGED <<prun, matchVars, stageVars, embedVars, normVars, syncVars, connVars, pageVars, logVars>>

\* select * from raw_lead_rows where ingestion_id = b and is_valid and
\* source_lead_id is null
RowsToTransform(b) ==
  SetToSortedSeq({ k \in RowIds(b) :
      raw_lead_rows[k].is_valid /\ raw_lead_rows[k].source_lead_id = 0 })

\* the position after the current row: the next row, or the final update
NextRow(run) ==
  IF run.i < Len(run.rows) THEN [run EXCEPT !.pc = "dedup", !.i = run.i + 1]
  ELSE [run EXCEPT !.pc = "finish"]

\* the valid rows are fetched; with none the ingestion is completed at once
TransformFetch(r) ==
  /\ trun[r].pc = "fetch"
  /\ IF RowsToTransform(trun[r].batch) = <<>>
     THEN /\ ingestion' = [ingestion EXCEPT ![trun[r].batch].status = "completed"]
          /\ trun' = [trun EXCEPT ![r] = TIdle]
     ELSE /\ trun' = [trun EXCEPT ![r] =
                 [trun[r] EXCEPT !.pc = "dedup", !.rows = RowsToTransform(trun[r].batch),
                                 !.i = 1]]
          /\ UNCHANGED ingestion
  /\ UNCHANGED <<raw_lead_rows, created_leads, row_lineage, lead_tasks, match_requests,
                 transforms>>
  /\ UNCHANGED <<prun, matchVars, stageVars, embedVars, normVars, syncVars, connVars, pageVars, logVars>>

\* select id from source_leads where organization_id, email_normalized, lead_source_id
\* match, .single(); 0 is "no row" (a row without email is not looked up)
ExistingLead(email) ==
  IF MapFields(email) = <<>> THEN {}
  ELSE SelectSingle({ l \in 1..Len(created_leads) :
          created_leads[l].email_normalized = DedupKey(MapFields(email)) })

\* the duplicate lookup of the current row
TransformDedup(r) ==
  /\ trun[r].pc = "dedup"
  /\ LET run == trun[r]
         row == raw_lead_rows[run.rows[run.i]]
         existing == ExistingLead(row.email)
     IN trun' = [trun EXCEPT ![r] =
          IF existing # {}
          THEN [run EXCEPT !.pc = "mark", !.existing = CHOOSE l \in existing : TRUE]
          ELSE [run EXCEPT !.pc = "insert"]]
  /\ UNCHANGED <<ingestion, raw_lead_rows, created_leads, row_lineage, lead_tasks,
                 match_requests, transforms>>
  /\ UNCHANGED <<prun, matchVars, stageVars, embedVars, normVars, syncVars, connVars, pageVars, logVars>>

\* duplicate_of uuid references raw_lead_rows(id); a source_leads id is a fresh
\* uuid and the id of no raw_lead_rows row
IsRawRowId(lead) == FALSE

\* update raw_lead_rows set is_duplicate = true, duplicate_of = existing.id: the
\* statement is rejected when the foreign key of duplicate_of does not hold, and the
\* handler does not look at the error; then duplicateCount++ and continue
TransformMarkDuplicate(r) ==
  /\ trun[r].pc = "mark"
  /\ LET run == trun[r]
         k == run.rows[run.i]
     IN /\ raw_lead_rows' =
             IF IsRawRowId(run.existing)
             THEN [raw_lead_rows EXCEPT ![k].is_duplicate = TRUE,
                                        ![k].duplicate_of = run.existing]
             ELSE raw_lead_rows
        /\ trun' = [trun EXCEPT ![r] =
             NextRow([run EXCEPT !.duplicateCount = @ + 1, !.existing = 0])]
  /\ UNCHANGED <<ingestion, created_leads, row_lineage, lead_tasks, match_requests,
                 transforms>>
  /\ UNCHANGED <<prun, matchVars, stageVars, embedVars, normVars, syncVars, connVars, pageVars, logVars>>

\* insert into source_leads (ok: the insert succeeded); on an error, continue
TransformInsert(r, ok) ==
  /\ trun[r].pc = "insert"
  /\ LET run == trun[r]
         k == run.rows[run.i]
         email == MapFields(raw_lead_rows[k].email)
     IN IF ok
        THEN /\ created_leads' = Append(created_leads,
                   [raw_row_id |-> k, email |-> email,
                    email_normalized |-> NormalizeEmail(email), match_status |-> "pending"])
             /\ trun' = [trun EXCEPT ![r] =
                   [run EXCEPT !.pc = "link", !.lead = Len(created_leads) + 1]]
        ELSE /\ UNCHANGED created_leads
             /\ trun' = [trun EXCEPT ![r] = NextRow(run)]
  /\ UNCHANGED <<ingestion, raw_lead_rows, row_lineage, lead_tasks, match_requests,
                 transforms>>
  /\ UNCHANGED <<prun, matchVars, stageVars, embedVars, normVars, syncVars, connVars, pageVars, logVars>>

\* update raw_lead_rows set source_lead_id = sourceLead.id
TransformLink(r) ==
  /\ trun[r].pc = "link"
  /\ raw_lead_rows' = [raw_lead_rows EXCEPT
         ![trun[r].rows[trun[r].i]].source_lead_id = trun[r].lead]
  /\ trun' = [trun EXCEPT ![r].pc = "lineage"]
  /\ UNCHANGED <<ingestion, created_leads, row_lineage, lead_tasks, match_requests,
                 transforms>>
  /\ UNCHANGED <<prun, matchVars, stageVars, embedVars, normVars, syncVars, connVars, pageVars, logVars>>

\* the lineage row with the raw row's id written as the target id
LineageRowTargetsRow(row, lead) ==
  [source_table |-> "raw_lead_rows", source_id |-> row,
   target_table |-> "source_leads", target_id |-> row, operation |-> "create"]

\* the data_lineage row of a created lead
LineageRow(row, lead) ==
  [source_table |-> "raw_lead_rows", source_id |-> row,
   target_table |-> "source_leads", target_id |-> lead, operation |-> "create"]

\* insert into data_lineage
TransformLineage(r) ==
  /\ trun[r].pc = "lineage"
  /\ row_lineage' = Append(row_lineage, LineageRow(trun[r].rows[trun[r].i], trun[r].lead))
  /\ trun' = [trun EXCEPT ![r].pc = "queue"]
  /\ UNCHANGED <<ingestion, raw_lead_rows, created_leads, lead_tasks, match_requests,
                 transforms>>
  /\ UNCHANGED <<prun, matchVars, stageVars, embedVars, normVars, syncVars, connVars, pageVars, logVars>>

\* queueForEmbedding("source_leads", sourceLead.id, text); sourceLeadIds.push; createdCount++
TransformQueue(r) ==
  /\ trun[r].pc = "queue"
  /\ lead_tasks' = lead_tasks \cup { trun[r].lead }
  /\ trun' = [trun EXCEPT ![r] =
         NextRow([trun[r] EXCEPT !.sourceLeadIds = Append(@, trun[r].lead),
                                 !.createdCount = @ + 1, !.lead = 0])]
  /\ UNCHANGED <<ingestion, raw_lead_rows, created_leads, row_lineage, match_requests,
                 transforms>>
  /\ UNCHANGED <<prun, matchVars, stageVars, embedVars, normVars, syncVars, connVars, pageVars, logVars>>

\* update raw_ingestions: completed, duplicate_rows = the value read at the start +
\* duplicateCount; then the created ids are posted to lead-matcher
TransformFinish(r) ==
  /\ trun[r].pc = "finish"
  /\ ingestion' = [ingestion EXCEPT ![trun[r].batch].status = "completed",
         ![trun[r].batch].duplicate_rows = trun[r].duplicate_rows + trun[r].duplicateCount]
  /\ match_requests' = IF trun[r].sourceLeadIds # <<>>
                       THEN match_requests \cup { trun[r].sourceLeadIds }
                       ELSE match_requests
  /\ trun' = [trun EXCEPT ![r] = TIdle]
  /\ UNCHANGED <<raw_lead_rows, created_leads, row_lineage, lead_tasks, transforms>>
  /\ UNCHANGED <<prun, matchVars, stageVars, embedVars, normVars, syncVars, connVars, pageVars, logVars>>

InitTransform ==
  /\ ingestion = [b \in Batches |->
                    [status |-> "pending", total_rows |-> 0, parsed_rows |-> 0,
                     valid_rows |-> 0, error_rows |-> 0, duplicate_rows |-> 0]]
  /\ raw_lead_rows = <<>>
  /\ created_leads = <<>>
  /\ row_lineage = <<>>
  /\ lead_tasks = {}
  /\ match_requests = {}
  /\ trun = [r \in TransformReqs |-> TIdle]
  /\ transforms = 0
  /\ prun = [b \in Batches |-> PIdle]

NextTransform ==
  \/ \E b \in Batches : ParseBegin(b)
  \/ \E b \in Batches : ParseFail(b)
  \/ \E b \in Batches, emails \in CsvFiles : ParseTotal(b, emails)
  \/ \E b \in Batches, ok \in BOOLEAN : ParseInsert(b, ok)
  \/ \E b \in Batches : ParseFinish(b)
  \/ \E r \in TransformReqs, b \in Batches : TransformBegin(r, b)
  \/ \E r \in TransformReqs : TransformFetch(r)
  \/ \E r \in TransformReqs : TransformDedup(r)
  \/ \E r \in TransformReqs : TransformMarkDuplicate(r)
  \/ \E r \in TransformReqs, ok \in BOOLEAN : TransformInsert(r, ok)
  \/ \E r \in TransformReqs : TransformLink(r)
  \/ \E r \in TransformReqs : TransformLineage(r)
  \/ \E r \in TransformReqs : TransformQueue(r)
  \/ \E r \in TransformReqs : TransformFinish(r)

(***************************************************************************)
(* FUB-SYNC: transformFubPerson and the upsert of one CRM person; every     *)
(* database call is one step                                               *)
(***************************************************************************)
Syncers == 1..MaxSyncers

\* null, as a value of a field
Null == <<"null">>

\* the values the CRM may give the fields of the person
FieldValues ==
  [email |-> { Null, <<"a", "@", "b">>, <<"c", "@", "b">> },
   phone |-> { <<"5", "5">>, <<"6", "5">> },
   firstName |-> { <<"A">>, <<"B">> },
   lastName |-> { <<"S">>, <<"T">> },
   stage |-> { <<"L">>, <<"W">> },
   assignedTo |-> { Null, <<"4", "2">> },
   updated |-> { <<"t", "1">>, <<"t", "2">> }]

PersonFields == DOMAIN FieldValues

\* the person when the connection is made
FirstPerson ==
  [email |-> <<"a", "@", "b">>, phone |-> <<"5", "5">>, firstName |-> <<"A">>,
   lastName |-> <<"S">>, stage |-> <<"L">>, assignedTo |-> Null, updated |-> <<"t", "1">>]

\* JSON.stringify of a string or null
JsonString(v) == IF v = Null THEN <<"n", "u", "l", "l">> ELSE <<"\"">> \o v \o <<"\"">>

\* JSON.stringify of a number or null
JsonNumber(v) == IF v = Null THEN <<"n", "u", "l", "l">> ELSE v

\* "key":
JsonKey(k) == <<"\"">> \o k \o <<"\"", ":">>

\* hashData: JSON.stringify({email, phone, firstName, lastName, stage, assignedTo,
\* updated}), the keys in this order
HashData(p) ==
  <<"{">> \o JsonKey(<<"e", "m", "a", "i", "l">>) \o JsonString(p.email)
  \o <<",">> \o JsonKey(<<"p", "h", "o", "n", "e">>) \o JsonString(p.phone)
  \o <<",">> \o JsonKey(<<"f", "i", "r", "s", "t", "N", "a", "m", "e">>)
  \o JsonString(p.firstName)
  \o <<",">> \o JsonKey(<<"l", "a", "s", "t", "N", "a", "m", "e">>) \o JsonString(p.lastName)
  \o <<",">> \o JsonKey(<<"s", "t", "a", "g", "e">>) \o JsonString(p.stage)
  \o <<",">> \o JsonKey(<<"a", "s", "s", "i", "g", "n", "e", "d", "T", "o">>)
  \o JsonNumber(p.assignedTo)
  \o <<",">> \o JsonKey(<<"u", "p", "d", "a", "t", "e", "d">>) \o JsonString(p.updated)
  \o <<"}">>

\* btoa: every three characters of the input give four base64 digits, and different
\* groups give different digits; a base64 text is kept as the sequence of its
\* four-digit groups, each written as the (up to) three characters it encodes
Btoa(x) ==
  [k \in 1..((Len(x) + 2) \div 3) |->
     SubSeq(x, 3 * k - 2, IF 3 * k <= Len(x) THEN 3 * k ELSE Len(x))]

\* the digits kept of the base64 text
HashDigits == 32

\* .slice(0, 32) of a base64 text: its first eight groups of four digits
Slice(b, digits) == SubSeq(b, 1, IF Len(b) < digits \div 4 THEN Len(b) ELSE digits \div 4)

\* syncHash = btoa(hashData).slice(0, 32)
SyncHash(p) == Slice(Btoa(HashData(p)), HashDigits)

\* transformFubPerson: the row for fub_leads, with its sync_hash
TransformFubPerson(p) == [present |-> TRUE, person |-> p, sync_hash |-> SyncHash(p)]

NoRow == [present |-> FALSE, person |-> FirstPerson, sync_hash |-> <<>>]
YIdle == [pc |-> "idle", leadData |-> NoRow, existing |-> NoRow, leadsCreated |-> 0,
          leadsUpdated |-> 0, alone |-> FALSE, clean |-> FALSE]
NoSync == [done |-> FALSE, person |-> FirstPerson, leads_created |-> 0, leads_updated |-> 0,
           alone |-> FALSE]

\* the CRM changes one field of the person
ChangePerson(field, value) ==
  /\ edits < MaxEdits
  /\ fub_person[field] # value
  /\ fub_person' = [fub_person EXCEPT ![field] = value]
  /\ edits' = edits + 1
  /\ UNCHANGED <<fub_lead_row, fub_tasks, yrun, sync_runs, last_sync>>
  /\ UNCHANGED <<matchVars, stageVars, embedVars, normVars, transformVars, connVars, pageVars, logVars>>

\* fub-sync: the person is fetched from the CRM and transformed (kept for the
\* properties: alone, no other request is in flight since this one began; clean, it
\* is alone and the sync completed last ran alone and fetched the same person)
SyncFetch(y) ==
  /\ yrun[y].pc = "idle"
  /\ sync_runs < MaxSyncRuns
  /\ sync_runs' = sync_runs + 1
  /\ yrun' = [q \in Syncers |->
        IF q = y
        THEN [YIdle EXCEPT !.pc = "select", !.leadData = TransformFubPerson(fub_person),
                !.alone = \A o \in Syncers : yrun[o].pc = "idle",
                !.clean = /\ \A o \in Syncers : yrun[o].pc = "idle"
                          /\ last_sync.done /\ last_sync.alone
                          /\ last_sync.person = fub_person]
        ELSE IF yrun[q].pc = "idle" THEN yrun[q]
        ELSE [yrun[q] EXCEPT !.alone = FALSE, !.clean = FALSE]]
  /\ UNCHANGED <<fub_person, edits, fub_lead_row, fub_tasks, last_sync>>
  /\ UNCHANGED <<matchVars, stageVars, embedVars, normVars, transformVars, connVars, pageVars, logVars>>

\* select id, sync_hash from fub_leads where fub_connection_id, fub_lead_id, .single()
SyncSelect(y) ==
  /\ yrun[y].pc = "select"
  /\ yrun' = [yrun EXCEPT ![y].pc = "upsert", ![y].existing = fub_lead_row]
  /\ UNCHANGED <<fub_person, edits, fub_lead_row, fub_tasks, sync_runs, last_sync>>
  /\ UNCHANGED <<matchVars, stageVars, embedVars, normVars, transformVars, connVars, pageVars, logVars>>

\* the update made whatever the stored hash is
ChangedAlways(existing, leadData) == TRUE

\* existing.sync_hash !== leadData.sync_hash
Changed(existing, leadData) == existing.sync_hash # leadData.sync_hash

\* the row exists and its hash differs: update fub_leads set ...leadData where id;
\* leadsUpdated++
SyncUpdate(y) ==
  /\ yrun[y].pc = "upsert"
  /\ yrun[y].existing.present
  /\ Changed(yrun[y].existing, yrun[y].leadData)
  /\ fub_lead_row' = yrun[y].leadData
  /\ yrun' = [yrun EXCEPT ![y].pc = "enqueue", ![y].leadsUpdated = @ + 1]
  /\ UNCHANGED <<fub_person, edits, fub_tasks, sync_runs, last_sync>>
  /\ UNCHANGED <<matchVars, stageVars, embedVars, normVars, transformVars, connVars, pageVars, logVars>>

\* the row exists with the same hash: nothing is done for the person
SyncSkip(y) ==
  /\ yrun[y].pc = "upsert"
  /\ yrun[y].existing.present
  /\ ~Changed(yrun[y].existing, yrun[y].leadData)
  /\ yrun' = [yrun EXCEPT ![y].pc = "log"]
  /\ UNCHANGED <<fub_person, edits, fub_lead_row, fub_tasks, sync_runs, last_sync>>
  /\ UNCHANGED <<matchVars, stageVars, embedVars, normVars, transformVars, connVars, pageVars, logVars>>

\* no row was found: insert into fub_leads; leadsCreated++. The insert is refused by
\* unique(fub_connection_id, fub_lead_id) when another request has inserted the row
\* since the select, and the error is pushed to errors
SyncInsert(y) ==
  /\ yrun[y].pc = "upsert"
  /\ ~yrun[y].existing.present
  /\ IF fub_lead_row.present
     THEN /\ yrun' = [yrun EXCEPT ![y].pc = "log"]
          /\ UNCHANGED fub_lead_row
     ELSE /\ fub_lead_row' = yrun[y].leadData
          /\ yrun' = [yrun EXCEPT ![y].pc = "enqueue", ![y].leadsCreated = @ + 1]
  /\ UNCHANGED <<fub_person, edits, fub_tasks, sync_runs, last_sync>>
  /\ UNCHANGED <<matchVars, stageVars, embedVars, normVars, transformVars, connVars, pageVars, logVars>>

\* queueForEmbedding(supabase, "fub_leads", id, embeddingText)
SyncEnqueue(y) ==
  /\ yrun[y].pc = "enqueue"
  /\ fub_tasks' = fub_tasks + 1
  /\ yrun' = [yrun EXCEPT ![y].pc = "log"]
  /\ UNCHANGED <<fub_person, edits, fub_lead_row, sync_runs, last_sync>>
  /\ UNCHANGED <<matchVars, stageVars, embedVars, normVars, transformVars, connVars, pageVars, logVars>>

\* update fub_sync_log: completed, leads_created, leads_updated
SyncLog(y) ==
  /\ yrun[y].pc = "log"
  /\ last_sync' = [done |-> TRUE, person |-> yrun[y].leadData.person,
                   leads_created |-> yrun[y].leadsCreated,
                   leads_updated |-> yrun[y].leadsUpdated, alone |-> yrun[y].alone]
  /\ yrun' = [yrun EXCEPT ![y] = YIdle]
  /\ UNCHANGED <<fub_person, edits, fub_lead_row, fub_tasks, sync_runs>>
  /\ UNCHANGED <<matchVars, stageVars, embedVars, normVars, transformVars, connVars, pageVars, logVars>>

InitSync ==
  /\ fub_person = FirstPerson
  /\ edits = 0
  /\ fub_lead_row = NoRow
  /\ fub_tasks = 0
  /\ yrun = [y \in Syncers |-> YIdle]
  /\ sync_runs = 0
  /\ last_sync = NoSync

NextSync ==
  \/ \E field \in PersonFields : \E value \in FieldValues[field] : ChangePerson(field, value)
  \/ \E y \in Syncers : SyncFetch(y)
  \/ \E y \in Syncers : SyncSelect(y)
  \/ \E y \in Syncers : SyncUpdate(y)
  \/ \E y \in Syncers : SyncSkip(y)
  \/ \E y \in Syncers : SyncInsert(y)
  \/ \E y \in Syncers : SyncEnqueue(y)
  \/ \E y \in Syncers : SyncLog(y)

(***************************************************************************)
(* FUB-SYNC: the sync of one connection with its times; the clock ticks     *)
(* between the statements, and the CRM updates the person at any time      *)
(***************************************************************************)
CIdle == [pc |-> "idle", started_at |-> 0, updatedAfter |-> 0, errors |-> FALSE]

\* time passes
Tick ==
  /\ clock < MaxClock
  /\ clock' = clock + 1
  /\ UNCHANGED <<crm_updated, connection, sync_log, synced_updated, crun, conn_runs>>
  /\ UNCHANGED <<matchVars, stageVars, embedVars, normVars, transformVars, syncVars, pageVars, logVars>>

\* the CRM updates the person: its updated time is now
CrmUpdate ==
  /\ crm_updated < clock
  /\ crm_updated' = clock
  /\ UNCHANGED <<clock, connection, sync_log, synced_updated, crun, conn_runs>>
  /\ UNCHANGED <<matchVars, stageVars, embedVars, normVars, transformVars, syncVars, pageVars, logVars>>

\* the connection is read and the fub_sync_log row is inserted: status running,
\* started_at = new Date(); an incremental sync filters by connection.last_sync_at
ConnBegin(full) ==
  /\ crun.pc = "idle"
  /\ conn_runs < MaxConnRuns
  /\ conn_runs' = conn_runs + 1
  /\ sync_log' = "running"
  /\ crun' = [pc |-> "verify", started_at |-> clock, errors |-> FALSE,
              updatedAfter |-> IF ~full /\ connection.last_sync_at # 0
                               THEN connection.last_sync_at ELSE 0]
  /\ UNCHANGED <<clock, crm_updated, connection, synced_updated>>
  /\ UNCHANGED <<matchVars, stageVars, embedVars, normVars, transformVars, syncVars, pageVars, logVars>>

\* verifyConnection and getUsers: an invalid key or a failed request throws
ConnVerify(valid) ==
  /\ crun.pc = "verify"
  /\ crun' = [crun EXCEPT !.pc = IF valid THEN "fetch" ELSE "failed"]
  /\ UNCHANGED <<clock, crm_updated, connection, sync_log, synced_updated, conn_runs>>
  /\ UNCHANGED <<matchVars, stageVars, embedVars, normVars, transformVars, syncVars, pageVars, logVars>>

\* the person passes the filter updatedAfter of the request
Selected(updatedAfter) == updatedAfter = 0 \/ crm_updated > updatedAfter

\* iteratePeople and the upsert of the person it yields: a failed upsert is pushed to
\* errors, a failed request of iteratePeople throws
ConnFetch(outcome) ==
  /\ crun.pc = "fetch"
  /\ CASE outcome = "ok" ->
            /\ synced_updated' = IF Selected(crun.updatedAfter) THEN crm_updated
                                 ELSE synced_updated
            /\ crun' = [crun EXCEPT !.pc = "log"]
       [] outcome = "upsert_error" ->
            /\ Selected(crun.updatedAfter)
            /\ crun' = [crun EXCEPT !.pc = "log", !.errors = TRUE]
            /\ UNCHANGED synced_updated
       [] outcome = "throw" ->
            /\ crun' = [crun EXCEPT !.pc = "failed"]
            /\ UNCHANGED synced_updated
  /\ UNCHANGED <<clock, crm_updated, connection, sync_log, conn_runs>>
  /\ UNCHANGED <<matchVars, stageVars, embedVars, normVars, transformVars, syncVars, pageVars, logVars>>

\* errors.length > 0 ? "completed_with_errors" : "completed"
EndStatus(errors) == IF errors THEN "completed_with_errors" ELSE "completed"

\* update fub_sync_log set status, leads_fetched, ..., completed_at
ConnLog ==
  /\ crun.pc = "log"
  /\ sync_log' = EndStatus(crun.errors)
  /\ crun' = [crun EXCEPT !.pc = "finish"]
  /\ UNCHANGED <<clock, crm_updated, connection, synced_updated, conn_runs>>
  /\ UNCHANGED <<matchVars, stageVars, embedVars, normVars, transformVars, syncVars, pageVars, logVars>>

\* update fub_connections set last_sync_at = new Date(), last_sync_status
ConnFinish ==
  /\ crun.pc = "finish"
  /\ connection' = [last_sync_at |-> clock, last_sync_status |-> EndStatus(crun.errors)]
  /\ crun' = CIdle
  /\ UNCHANGED <<clock, crm_updated, sync_log, synced_updated, conn_runs>>
  /\ UNCHANGED <<matchVars, stageVars, embedVars, normVars, transformVars, syncVars, pageVars, logVars>>

\* catch: update fub_sync_log set status = failed
ConnFailLog ==
  /\ crun.pc = "failed"
  /\ sync_log' = "failed"
  /\ crun' = [crun EXCEPT !.pc = "failconn"]
  /\ UNCHANGED <<clock, crm_updated, connection, synced_updated, conn_runs>>
  /\ UNCHANGED <<matchVars, stageVars, embedVars, normVars, transformVars, syncVars, pageVars, logVars>>

\* catch: update fub_connections set last_sync_status = failed
ConnFail ==
  /\ crun.pc = "failconn"
  /\ connection' = [connection EXCEPT !.last_sync_status = "failed"]
  /\ crun' = CIdle
  /\ UNCHANGED <<clock, crm_updated, sync_log, synced_updated, conn_runs>>
  /\ UNCHANGED <<matchVars, stageVars, embedVars, normVars, transformVars, syncVars, pageVars, logVars>>

InitConn ==
  /\ clock = 1
  /\ crm_updated = 1
  /\ connection = [last_sync_at |-> 0, last_sync_status |-> "none"]
  /\ sync_log = "none"
  /\ synced_updated = 0
  /\ crun = CIdle
  /\ conn_runs = 0

NextConn ==
  \/ Tick
  \/ CrmUpdate
  \/ \E full \in BOOLEAN : ConnBegin(full)
  \/ \E valid \in BOOLEAN : ConnVerify(valid)
  \/ \E outcome \in {"ok", "upsert_error", "throw"} : ConnFetch(outcome)
  \/ ConnLog
  \/ ConnFinish
  \/ ConnFailLog
  \/ ConnFail

(***************************************************************************)
(* FUB CLIENT: iteratePeople over getPeople, against a CRM that holds the   *)
(* people 1..total and answers a request with those at [offset, offset +   *)
(* limit) and with _metadata.offset and _metadata.total                    *)
(***************************************************************************)
IterIdle == [pc |-> "idle", total |-> 0, batchSize |-> 0, offset |-> 0, hasMore |-> FALSE,
             result |-> [people |-> <<>>, hasMore |-> FALSE], yielded |-> <<>>,
             requests |-> 0]

\* the answer of GET /people?offset=..&limit=..: the people and the _metadata
PeopleResponse(total, offset, limit) ==
  [people |-> [k \in 1..(IF offset >= total THEN 0
                           ELSE IF offset + limit > total THEN total - offset
                           ELSE limit) |-> offset + k],
   _metadata |-> [offset |-> offset, limit |-> limit, total |-> total]]

\* hasMore whenever the page held a person
HasMoreUntilEmpty(response) == Len(response.people) > 0

\* hasMore: metadata.offset + people.length < metadata.total
HasMore(response) ==
  response._metadata.offset + Len(response.people) < response._metadata.total

\* getPeople({offset, limit}): the people of the response, its total and hasMore
GetPeople(total, offset, limit) ==
  LET response == PeopleResponse(total, offset, limit)
  IN [people |-> response.people, total |-> response._metadata.total,
      hasMore |-> HasMore(response)]

\* iteratePeople(params) is called: batchSize = params.batchSize || 100, offset = 0,
\* hasMore = true
IterBegin(total, batchSize) ==
  /\ iter.pc = "idle"
  /\ iter' = [IterIdle EXCEPT !.pc = "request", !.total = total, !.batchSize = batchSize,
                              !.hasMore = TRUE]
  /\ UNCHANGED <<matchVars, stageVars, embedVars, normVars, transformVars, syncVars,
                 connVars, logVars>>

\* while (hasMore): result = await this.getPeople({offset, limit: batchSize})
IterRequest ==
  /\ iter.pc = "request"
  /\ iter.hasMore
  /\ iter' = [iter EXCEPT !.pc = "yield", !.requests = @ + 1,
                          !.result = [people |-> GetPeople(iter.total, iter.offset,
                                                           iter.batchSize).people,
                                      hasMore |-> GetPeople(iter.total, iter.offset,
                                                            iter.batchSize).hasMore]]
  /\ UNCHANGED <<matchVars, stageVars, embedVars, normVars, transformVars, syncVars,
                 connVars, logVars>>

\* a page that is not empty is yielded; hasMore = result.hasMore; offset += batchSize
IterYield ==
  /\ iter.pc = "yield"
  /\ iter' = [iter EXCEPT !.pc = "request",
                          !.yielded = IF Len(iter.result.people) > 0
                                      THEN @ \o iter.result.people ELSE @,
                          !.hasMore = iter.result.hasMore,
                          !.offset = @ + iter.batchSize]
  /\ UNCHANGED <<matchVars, stageVars, embedVars, normVars, transformVars, syncVars,
                 connVars, logVars>>

\* the loop ends: the generator returns
IterReturn ==
  /\ iter.pc = "request"
  /\ ~iter.hasMore
  /\ iter' = [iter EXCEPT !.pc = "done"]
  /\ UNCHANGED <<matchVars, stageVars, embedVars, normVars, transformVars, syncVars,
                 connVars, logVars>>

InitPage == iter = IterIdle

NextPage ==
  \/ \E total \in 0..MaxTotal, batchSize \in 1..MaxBatchSize : IterBegin(total, batchSize)
  \/ IterRequest
  \/ IterYield
  \/ IterReturn

(***************************************************************************)
(* PROCESSING LOG: the writes of email-ingest, csv-parser and               *)
(* lead-transformer to raw_ingestions.processing_log of one batch; each    *)
(* handler reads the row once, at its start                                *)
(***************************************************************************)
LIdle == [pc |-> "idle", processing_log |-> <<>>]

\* email-ingest: insert into raw_ingestions with processing_log [email_received]
LogStage ==
  /\ ~logged.exists
  /\ logged' = [exists |-> TRUE, processing_log |-> <<"email_received">>]
  /\ UNCHANGED <<lparse, ltransform, log_runs>>
  /\ UNCHANGED <<matchVars, stageVars, embedVars, normVars, transformVars, syncVars,
                 connVars, pageVars>>

\* csv-parser: select * from raw_ingestions where id = ingestion_id
LogParseRead ==
  /\ logged.exists
  /\ lparse.pc = "idle"
  /\ log_runs < MaxLogRuns
  /\ log_runs' = log_runs + 1
  /\ lparse' = [pc |-> "start", processing_log |-> logged.processing_log]
  /\ UNCHANGED <<logged, ltransform>>
  /\ UNCHANGED <<matchVars, stageVars, embedVars, normVars, transformVars, syncVars,
                 connVars, pageVars>>

\* [...ingestion.processing_log, entry]: the log of the row as the handler read it
\* at its start, with one entry more
Appended(read, action) == Append(read.processing_log, action)

\* csv-parser: update status = processing, processing_log = [..., parsing_started]
LogParseStarted ==
  /\ lparse.pc = "start"
  /\ logged' = [logged EXCEPT !.processing_log = Appended(lparse, "parsing_started")]
  /\ lparse' = [lparse EXCEPT !.pc = "work"]
  /\ UNCHANGED <<ltransform, log_runs>>
  /\ UNCHANGED <<matchVars, stageVars, embedVars, normVars, transformVars, syncVars,
                 connVars, pageVars>>

\* csv-parser, updateIngestionError: processing_log = [..., error]
LogParseError ==
  /\ lparse.pc = "work"
  /\ logged' = [logged EXCEPT !.processing_log = Appended(lparse, "error")]
  /\ lparse' = LIdle
  /\ UNCHANGED <<ltransform, log_runs>>
  /\ UNCHANGED <<matchVars, stageVars, embedVars, normVars, transformVars, syncVars,
                 connVars, pageVars>>

\* csv-parser: update status = parsed, processing_log = [..., parsing_completed]
LogParseCompleted ==
  /\ lparse.pc = "work"
  /\ logged' = [logged EXCEPT !.processing_log = Appended(lparse, "parsing_completed")]
  /\ lparse' = LIdle
  /\ UNCHANGED <<ltransform, log_runs>>
  /\ UNCHANGED <<matchVars, stageVars, embedVars, normVars, transformVars, syncVars,
                 connVars, pageVars>>

\* lead-transformer: select * from raw_ingestions where id = ingestion_id
LogTransformRead ==
  /\ logged.exists
  /\ ltransform.pc = "idle"
  /\ log_runs < MaxLogRuns
  /\ log_runs' = log_runs + 1
  /\ ltransform' = [pc |-> "start", processing_log |-> logged.processing_log]
  /\ UNCHANGED <<logged, lparse>>
  /\ UNCHANGED <<matchVars, stageVars, embedVars, normVars, transformVars, syncVars,
                 connVars, pageVars>>

\* lead-transformer: update status = transforming, processing_log = [...,
\* transformation_started]
LogTransformStarted ==
  /\ ltransform.pc = "start"
  /\ logged' = [logged EXCEPT
                  !.processing_log = Appended(ltransform, "transformation_started")]
  /\ ltransform' = [ltransform EXCEPT !.pc = "work"]
  /\ UNCHANGED <<lparse, log_runs>>
  /\ UNCHANGED <<matchVars, stageVars, embedVars, normVars, transformVars, syncVars,
                 connVars, pageVars>>

\* lead-transformer: no valid row is left; update status = completed (no log entry)
LogTransformNoRows ==
  /\ ltransform.pc = "work"
  /\ ltransform' = LIdle
  /\ UNCHANGED <<logged, lparse, log_runs>>
  /\ UNCHANGED <<matchVars, stageVars, embedVars, normVars, transformVars, syncVars,
                 connVars, pageVars>>

\* lead-transformer: update status = completed, processing_log = [...,
\* transformation_completed]
LogTransformCompleted ==
  /\ ltransform.pc = "work"
  /\ logged' = [logged EXCEPT
                  !.processing_log = Appended(ltransform, "transformation_completed")]
  /\ ltransform' = LIdle
  /\ UNCHANGED <<lparse, log_runs>>
  /\ UNCHANGED <<matchVars, stageVars, embedVars, normVars, transformVars, syncVars,
                 connVars, pageVars>>

InitLog ==
  /\ logged = [exists |-> FALSE, processing_log |-> <<>>]
  /\ lparse = LIdle
  /\ ltransform = LIdle
  /\ log_runs = 0

NextLog ==
  \/ LogStage
  \/ LogParseRead
  \/ LogParseStarted
  \/ LogParseError
  \/ LogParseCompleted
  \/ LogTransformRead
  \/ LogTransformStarted
  \/ LogTransformNoRows
  \/ LogTransformCompleted

(***************************************************************************)
(* Specifications: one per component; the other components stand still    *)
(***************************************************************************)
Init ==
  /\ InitMatch /\ InitStage /\ InitEmbed /\ InitNorm /\ InitTransform /\ InitSync
  /\ InitConn /\ InitPage /\ InitLog
Next ==
  \/ NextMatch \/ NextStage \/ NextEmbed \/ NextNorm \/ NextTransform \/ NextSync
  \/ NextConn \/ NextPage \/ NextLog

\* the whole pipeline; the three components share no table of the model, so each
\* property is checked under the specification of its component
Spec == Init /\ [][Next]_vars

SpecMatch == Init /\ [][NextMatch]_vars
SpecStage == Init /\ [][NextStage]_vars
SpecEmbed == Init /\ [][NextEmbed]_vars
SpecNorm == Init /\ [][NextNorm]_vars
SpecTransform == Init /\ [][NextTransform]_vars
SpecSync == Init /\ [][NextSync]_vars
SpecConn == Init /\ [][NextConn]_vars
SpecPage == Init /\ [][NextPage]_vars
SpecLog == Init /\ [][NextLog]_vars

\* the steps of a worker run in flight
WorkerStep(w) ==
  \/ WorkerMark(w)
  \/ \E ok \in BOOLEAN : WorkerGenerate(w, ok)
  \/ \E ok \in BOOLEAN : WorkerWrite(w, ok)
  \/ WorkerReset(w)

\* the embedding queue with its scheduling: a run in flight goes on to its next
\* statement unless it crashes, and the cron schedule keeps starting runs while there
\* are pending tasks
FairSpecEmbed ==
  /\ SpecEmbed
  /\ \A w \in Workers : WF_vars(WorkerStep(w))
  /\ \A w \in Workers : WF_vars(\E n \in 1..MaxTasks : WorkerFetch(w, n))


(***************************************************************************)
(* Properties of the matcher and the review resolver (SpecMatch)           *)
(***************************************************************************)
\* no matcher run and no approval is between two of its database calls
Quiescent == mrun.pc = "idle" /\ rrun.pc = "idle"

\* C1: every canonical lead has at most one Match with status = active.
C1_AtMostOneActiveMatch ==
  \A s \in SrcIds : Cardinality(ActiveMatches(s)) <= 1

\* C2: in every state a reader can observe, also between the writes of one
\* auto-match or approval, match_status = matched iff exactly one active Match.
C2_MatchedIffOneActive ==
  \A s \in SrcIds :
    (source_leads[s].match_status = "matched") <=> (Cardinality(ActiveMatches(s)) = 1)

\* C3: after any sequence of matcher runs, approvals and rejections, match_status is
\* review or multiple iff the lead has a pending candidate and no active Match.
C3_ReviewIffPending ==
  Quiescent =>
    \A s \in SrcIds :
      (source_leads[s].match_status \in {"review", "multiple"})
        <=> (PendingCandidates(s) # {} /\ ActiveMatches(s) = {})

\* C4: a lead whose match_status is unmatched has no active Match and no pending
\* candidate (the "only if" half of the claim, the one it spells out for re-runs).
C4_UnmatchedHasNoActiveNoPending ==
  Quiescent =>
    \A s \in SrcIds :
      (source_leads[s].match_status = "unmatched")
        => (ActiveMatches(s) = {} /\ PendingCandidates(s) = {})

\* C5: every step of a matcher run on a lead that had an active Match when the run
\* started leaves the leads, the Matches, the candidates and the lineage unchanged.
C5_RerunOnMatchedIsNoOp ==
  [][ (mrun.pc # "idle" /\ mrun.hadActive /\ mrun' # mrun)
        => UNCHANGED <<source_leads, lead_matches, match_candidates, data_lineage>> ]_vars

\* C6: every Match and every MatchCandidate joins a canonical lead and a CRM lead
\* of the same organization.
C6_SameTenant ==
  /\ \A m \in lead_matches :
       SrcRow(m.source_lead_id).organization_id = FubOrg(m.fub_lead_id)
  /\ \A c \in match_candidates :
       SrcRow(c.source_lead_id).organization_id = FubOrg(c.fub_lead_id)

\* C6 witness: a manual and a system Match exist while a CRM lead of another
\* organization carries the email of a matched canonical lead.
C6_Witness ==
  /\ \E m \in lead_matches : m.matched_by = "manual"
  /\ \E m \in lead_matches : m.matched_by = "system"
  /\ \E m \in lead_matches, f \in FubIds :
       /\ fub_leads[f].present
       /\ FubOrg(f) # SrcRow(m.source_lead_id).organization_id
       /\ fub_leads[f].email_normalized = SrcRow(m.source_lead_id).email_normalized

\* a rejectCandidate call: the one step that changes a candidate while no matcher run,
\* no approval and no sync moves
RejectStep ==
  /\ match_candidates' # match_candidates
  /\ mrun' = mrun /\ rrun' = rrun /\ syncs' = syncs

\* C13: approveCandidate and rejectCandidate applied to a candidate that is not
\* pending leave the candidates, the Matches and the canonical leads unchanged.
C13_NonPendingIsRefused ==
  [][ /\ (rrun.pc # "idle" /\ rrun.status # "pending" /\ rrun' # rrun)
          => UNCHANGED <<source_leads, lead_matches, match_candidates>>
      /\ RejectStep
          => \A c \in match_candidates : c.status # "pending" => c \in match_candidates'
    ]_vars

\* C14: when the approval of a candidate that was pending when it was loaded returns,
\* there is a Match for the candidate's pair with matched_by = manual and
\* match_type = manual, the candidate is approved, no other candidate of the lead
\* is pending, and the lead is matched with the candidate's confidence_score.
C14_ApproveResolvesLead ==
  [][ (rrun.pc # "idle" /\ rrun.status = "pending" /\ rrun'.pc = "idle") =>
        LET s == rrun.candidate[1]
            f == rrun.candidate[2]
        IN /\ \E m \in lead_matches' :
                /\ m.source_lead_id = s /\ m.fub_lead_id = f
                /\ m.matched_by = "manual" /\ m.match_type = "manual"
           /\ \A c \in match_candidates' :
                c.source_lead_id = s =>
                  IF c.fub_lead_id = f THEN c.status = "approved" ELSE c.status # "pending"
           /\ source_leads'[s] = [match_status |-> "matched",
                                  match_confidence |-> rrun.confidence_score]
    ]_vars

\* C15: a rejectCandidate call on a pending candidate of a lead in review sets it to
\* rejected; the lead is unchanged while another candidate of the lead is pending,
\* and its match_status is unmatched when the rejected candidate was the last one.
C15_RejectLastReverts ==
  [][ RejectStep =>
        \A c \in match_candidates :
          (c.status = "pending" /\ c \notin match_candidates'
             /\ source_leads[c.source_lead_id].match_status \in {"review", "multiple"}) =>
            /\ [c EXCEPT !.status = "rejected"] \in match_candidates'
            /\ IF \E o \in match_candidates' :
                    o.source_lead_id = c.source_lead_id /\ o.status = "pending"
               THEN source_leads'[c.source_lead_id] = source_leads[c.source_lead_id]
               ELSE source_leads'[c.source_lead_id].match_status = "unmatched"
    ]_vars


\* C16: every Match the matcher created (matched_by = system) has match_type
\* email_exact or phone_exact; an address signal alone never auto-matches.
C16_OnlyExactSignalsAutoMatch ==
  \A m \in lead_matches :
    m.matched_by = "system" => m.match_type \in {"email_exact", "phone_exact"}


\* a word with its listed abbreviation put in its place
Abbreviated(w) ==
  IF \E k \in 1..Len(Abbreviations) : Abbreviations[k][1] = w
  THEN Abbreviations[CHOOSE k \in 1..Len(Abbreviations) : Abbreviations[k][1] = w][2]
  ELSE w

RECURSIVE CanonWords(_, _, _)
\* the words of x from position i on, in order, each abbreviated
CanonWords(x, i, cur) ==
  IF i > Len(x) THEN (IF cur = <<>> THEN <<>> ELSE <<Abbreviated(cur)>>)
  ELSE IF x[i] = " "
       THEN (IF cur = <<>> THEN <<>> ELSE <<Abbreviated(cur)>>) \o CanonWords(x, i + 1, <<>>)
       ELSE CanonWords(x, i + 1, Append(cur, x[i]))

\* two addresses differ by nothing but listed abbreviations and letter case
SameButAbbreviations(a, b) ==
  /\ a # <<>> /\ b # <<>>
  /\ CanonWords(Lower(a), 1, <<>>) = CanonWords(Lower(b), 1, <<>>)

\* the CRM leads of the lead's organization whose address differs from the lead's
\* by abbreviations and case only
AbbreviationPairs(s) ==
  { f \in FubIds : /\ fub_leads[f].present /\ SameOrg(s, f)
                   /\ SameButAbbreviations(fub_leads[f].address_normalized,
                                           SrcRow(s).property_address_normalized) }

\* the lead's only relation to the corpus of its organization is one such address:
\* no email match, no phone match, no address signal with any other CRM lead
OnlyAbbreviationPair(s) ==
  /\ Cardinality(AbbreviationPairs(s)) = 1
  /\ \A f \in FubIds :
       \A g \in Signals(s, f) : g.match_type = "address_fuzzy" /\ f \in AbbreviationPairs(s)

\* C17: a matcher run on a lead whose only signal is an address that differs from
\* the CRM lead's by a listed abbreviation and letter case ends with exactly one
\* candidate, of type address_fuzzy with a score in [0.60, 0.90), no Match, and
\* match_status = review.
C17_AbbreviationPairGoesToReview ==
  [][ (mrun.pc # "idle" /\ mrun'.pc = "idle"
         /\ OnlyAbbreviationPair(mrun.lead)
         /\ mrun.matches \in FindFubMatches(mrun.lead, MaxResults)) =>
        LET s == mrun.lead
            cs == { c \in match_candidates' : c.source_lead_id = s }
        IN /\ Cardinality(cs) = 1
           /\ \A c \in cs : /\ c.fub_lead_id \in AbbreviationPairs(s)
                            /\ c.match_type = "address_fuzzy"
                            /\ c.confidence_score >= 6000 /\ c.confidence_score < 9000
                            /\ c.status = "pending"
           /\ ~\E m \in lead_matches' : m.source_lead_id = s
           /\ source_leads'[s].match_status = "review"
    ]_vars


(***************************************************************************)
(* Properties of the ingestion stager (SpecStage)                          *)
(***************************************************************************)
\* requests i and i+1 of the history ran one after the other, with nothing else in
\* flight, for the same organization and the same single file, and the first staged it
BackToBack(i) ==
  /\ i + 1 <= Len(stage_hist)
  /\ stage_hist[i].alone /\ stage_hist[i + 1].alone
  /\ stage_hist[i].org = stage_hist[i + 1].org
  /\ Len(stage_hist[i].atts) = 1
  /\ stage_hist[i].atts = stage_hist[i + 1].atts
  /\ Len(stage_hist[i].ids) = 1

\* C7: staging the same bytes twice back-to-back returns the same batch id both
\* times, and the second call creates no batch and no blob and triggers no parse.
C7_IdempotentStaging ==
  \A i \in 1..Len(stage_hist) :
    BackToBack(i) =>
      /\ stage_hist[i + 1].ids = stage_hist[i].ids
      /\ stage_hist[i + 1].created = 0
      /\ stage_hist[i + 1].uploaded = 0

\* C8: a batch suppresses the staging of a file only when it has the same
\* organization and the same hash.
C8_DedupKeyedOnTenantAndHash ==
  \A i \in 1..Len(stage_hist) :
    \A k \in stage_hist[i].skipped :
      /\ raw_ingestions[k[2]].organization_id = stage_hist[i].org
      /\ raw_ingestions[k[2]].file_hash = k[1]

(***************************************************************************)
(* Properties of the embedding queue (SpecEmbed)                           *)
(***************************************************************************)
\* the tasks a run has set to processing and not yet written back
Claimed(w) ==
  IF wrun[w].pc \in {"generate", "write", "reset"} THEN ItemIds(w) ELSE {}

\* C9: no embedding task is claimed by two worker runs at once.
C9_NoDoubleClaim ==
  \A w1 \in Workers, w2 \in Workers :
    w1 # w2 => Claimed(w1) \cap Claimed(w2) = {}

\* C10: a task whose attempts reached max_attempts is left in status failed.
C10_ExhaustedIsFailed ==
  \A t \in TaskIds :
    (embedding_queue[t].exists /\ embedding_queue[t].attempts >= MaxAttempts /\ ~Held(t))
      => embedding_queue[t].status = "failed"

\* C11: a queueForEmbedding call for a record whose task is pending changes no field
\* of that task (there is one row per (table_name, record_id), so the call is the
\* step that counts an enqueue, and it touches no other row).
C11_ReenqueuePendingIsNoOp ==
  [][ (enqueues' # enqueues) =>
        \A t \in TaskIds :
          (embedding_queue[t].exists /\ embedding_queue[t].status = "pending")
            => embedding_queue'[t] = embedding_queue[t] ]_vars

\* the task was enqueued once, its passes ran one after the other, every write of an
\* embedding onto the target row succeeded, and no pass is in flight
SerialPasses(t) ==
  /\ embedding_queue[t].exists
  /\ pass_log[t].serial
  /\ ~Held(t)

\* C12: when the provider failed on the first k passes of a task (k < max_attempts)
\* and succeeded on the next, the task is completed after exactly k + 1 passes with
\* attempts = k, and the target row has an embedding and the task's text.
C12_CompletedAfterRetries ==
  \A t \in TaskIds :
    SerialPasses(t) =>
      /\ (embedding_queue[t].status = "completed")
           <=> (pass_log[t].passes = pass_log[t].provider_failures + 1)
      /\ (embedding_queue[t].status = "completed") =>
           /\ pass_log[t].provider_failures < MaxAttempts
           /\ embedding_queue[t].attempts = pass_log[t].provider_failures
           /\ target_rows[t].embedded
           /\ target_rows[t].embedding_text = embedding_queue[t].text_to_embed

\* C12 witness: the spec's case, one failed pass and then a successful one
C12_Witness ==
  \E t \in TaskIds :
    /\ SerialPasses(t)
    /\ embedding_queue[t].status = "completed"
    /\ pass_log[t].provider_failures = 1
    /\ pass_log[t].passes = 2
    /\ embedding_queue[t].attempts = 1

(***************************************************************************)
(* Properties of the normalizer (SpecNorm)                                 *)
(***************************************************************************)
\* C20: normalizing a normalized phone, address or email gives the same value:
\* normalize(normalize(x)) = normalize(x) for every input x.
C20_NormalizersIdempotent ==
  norm.pc = "twice" => norm.twice = norm.once

(***************************************************************************)
(* Properties of the lead-transformer (SpecTransform)                      *)
(***************************************************************************)
\* one transformer run, and only one, has processed the first ingestion and returned
OneRunDone ==
  /\ transforms = 1
  /\ \A r \in TransformReqs : trun[r].pc = "idle"
  /\ ingestion[1].status = "completed"

\* the file had two valid rows with the same normalized email, and the first of them
\* was made a canonical lead
TwoRowsOneEmail ==
  /\ Len(raw_lead_rows) = 2
  /\ RowIds(1) = {1, 2}
  /\ raw_lead_rows[1].is_valid /\ raw_lead_rows[2].is_valid
  /\ DedupKey(MapFields(raw_lead_rows[1].email)) = DedupKey(MapFields(raw_lead_rows[2].email))
  /\ raw_lead_rows[1].source_lead_id # 0

\* C18: after the transformer processed a batch of two valid rows with the same
\* normalized email, one canonical lead exists, the later row has is_duplicate = true,
\* a duplicate_of and no canonical lead, and the batch has valid = 2, duplicate_rows = 1.
C18_SecondRowMarkedDuplicate ==
  (OneRunDone /\ TwoRowsOneEmail) =>
    /\ Len(created_leads) = 1
    /\ raw_lead_rows[2].is_duplicate
    /\ raw_lead_rows[2].duplicate_of # 0
    /\ raw_lead_rows[2].source_lead_id = 0
    /\ ingestion[1].valid_rows = 2
    /\ ingestion[1].duplicate_rows = 1

\* the lineage rows with operation = create from a raw row to the canonical lead l
CreateLineage(l) ==
  { k \in 1..Len(row_lineage) :
      /\ row_lineage[k].target_table = "source_leads" /\ row_lineage[k].target_id = l
      /\ row_lineage[k].source_table = "raw_lead_rows"
      /\ row_lineage[k].operation = "create" }

\* C19: after any sequence of transformer runs, every canonical lead is the target
\* of at most one lineage row with operation = create whose source is a raw row.
C19_AtMostOneCreateLineage ==
  \A l \in 1..Len(created_leads) : Cardinality(CreateLineage(l)) <= 1

\* C19 witness: two runs on the same ingestion have returned, and canonical leads
\* with their lineage rows exist for both rows of the file
C19_Witness ==
  /\ transforms = 2
  /\ \A r \in TransformReqs : trun[r].pc = "idle"
  /\ Len(created_leads) >= 2
  /\ Len(row_lineage) >= 2
  /\ \A l \in 1..Len(created_leads) : Cardinality(CreateLineage(l)) = 1


(***************************************************************************)
(* Properties of the status and the counters of an ingestion               *)
(* (SpecTransform)                                                         *)
(***************************************************************************)
\* the place of a status in the pipeline: pending, processing, parsed, transforming,
\* then the terminal statuses
StatusRank(status) ==
  CASE status = "pending" -> 0
    [] status = "processing" -> 1
    [] status = "parsed" -> 2
    [] status = "transforming" -> 3
    [] OTHER -> 4

\* C21: whatever csv-parser and lead-transformer requests are made on a batch, repeated
\* ones included, no step moves the status of the batch to an earlier place of
\* pending, processing, parsed, transforming, terminal (completed, partial, failed)
C21_StatusOnlyAdvances ==
  [][\A b \in Batches :
        StatusRank(ingestion'[b].status) >= StatusRank(ingestion[b].status)]_vars


\* the step that ends a successful parse of batch b: the update to status parsed
ParseEnds(b) == prun[b].pc = "finish" /\ prun'[b].pc = "idle"

\* the rows of batch b stored in raw_lead_rows with is_valid = false
StoredInvalid(rows, b) ==
  Cardinality({ k \in 1..Len(rows) : rows[k].ingestion_id = b /\ ~rows[k].is_valid })

\* C22: at the end of a successful parse the counters of the batch satisfy
\* total_rows = parsed_rows + error_rows, and parsed_rows = valid_rows + the number
\* of rows stored with is_valid = false
C22_CountersAddUp ==
  [][\A b \in Batches : ParseEnds(b) =>
       /\ ingestion'[b].total_rows = ingestion'[b].parsed_rows + ingestion'[b].error_rows
       /\ ingestion'[b].parsed_rows =
            ingestion'[b].valid_rows + StoredInvalid(raw_lead_rows', b)]_vars


\* request r of the transformer returns with this step
Returns(r) == trun[r].pc # "idle" /\ trun'[r].pc = "idle"

\* C23: a transformer request made again on a batch that is already completed leaves,
\* when it returns, the status and the counters of the batch (duplicate_rows
\* included), its raw rows, the canonical leads, the lineage rows and the embedding
\* queue as they were after the first run
C23_RerunChangesNothing ==
  [][\A r \in TransformReqs :
        (trun[r].before # <<>> /\ Returns(r)) =>
           \A b \in Batches : b = trun[r].batch => BatchState(b)' = trun[r].before]_vars


\* the batch whose row the canonical lead l was created from
BatchOf(l) == raw_lead_rows[created_leads[l].raw_row_id].ingestion_id

\* C24: when two batches of the same tenant and source are transformed, concurrently
\* or not, the table never holds two canonical leads, one from each batch, with the
\* same non-empty email_normalized (the duplicate lookup and the insert act as one step)
C24_OneLeadPerEmail ==
  \A l1, l2 \in 1..Len(created_leads) :
    (BatchOf(l1) # BatchOf(l2) /\ created_leads[l1].email_normalized # <<>>)
      => created_leads[l1].email_normalized # created_leads[l2].email_normalized


(***************************************************************************)
(* Properties of a worker run of the embedding queue (SpecEmbed)           *)
(***************************************************************************)
\* run w reverts task t with this step: the write onto the target row failed, or the
\* provider request failed for the whole batch
RevertStep(w, t) ==
  /\ wrun[w].pc \in {"write", "reset"}
  /\ wrun'[w] # wrun[w]
  /\ wrun'[w].pc # "crashed"
  /\ wrun[w].items[wrun[w].i].id = t
  /\ embedding_queue'[t].status = "pending"

\* run w returns with this step
RunReturns(w) == wrun[w].pc # "idle" /\ wrun'[w].pc = "idle"

\* C25: the step of a worker run that reverts a task (the write onto its target row
\* failed, or the provider failed for the batch) leaves the task pending with attempts
\* one more than before and last_error set, and touches no other task; when the run
\* returns, none of its tasks is in status processing
C25_RevertCountsOneAttempt ==
  [][\A w \in Workers :
        /\ \A t \in TaskIds : RevertStep(w, t) =>
              /\ embedding_queue'[t].attempts = embedding_queue[t].attempts + 1
              /\ embedding_queue'[t].last_error
              /\ \A u \in TaskIds \ {t} : embedding_queue'[u] = embedding_queue[u]
        /\ RunReturns(w) =>
              \A t \in ItemIds(w) : embedding_queue'[t].status # "processing"]_vars


(***************************************************************************)
(* Properties of the tiers of the matcher (SpecMatch)                      *)
(***************************************************************************)
\* the step of processMatches that decides on the results of find_fub_matches
Decides == mrun.pc = "found" /\ mrun'.pc # "found"

\* the confidences of the results the run holds
Confidences == { mrun.matches[i].confidence : i \in 1..Len(mrun.matches) }

\* the results of the run with a confidence from lo up to, not including, hi
InBand(lo, hi) ==
  { mrun.matches[i].fub_lead_id :
      i \in { j \in 1..Len(mrun.matches) :
                mrun.matches[j].confidence >= lo /\ mrun.matches[j].confidence < hi } }

C27_AutoPicksTopResult ==
  [][Decides =>
       \A m \in lead_matches' \ lead_matches :
         \A c \in Confidences : m.match_confidence >= c]_vars


(***************************************************************************)
(* Properties of fub-sync (SpecSync)                                       *)
(***************************************************************************)
\* request y decides on the person with this step: update, insert or nothing
Upserts(y) == yrun[y].pc = "upsert" /\ yrun'[y].pc # "upsert"

\* C28: when the person fetched differs from the stored row in any of email, phone,
\* first name, last name, stage, assigned user id or updated timestamp, its sync_hash
\* differs from the stored one, and the sync updates the stored row and goes on to
\* enqueue it for embedding
C28_ChangeIsSynced ==
  [][\A y \in Syncers :
        (Upserts(y) /\ yrun[y].existing.present
           /\ yrun[y].existing.person # yrun[y].leadData.person) =>
          /\ yrun[y].leadData.sync_hash # yrun[y].existing.sync_hash
          /\ fub_lead_row' = yrun[y].leadData
          /\ yrun'[y].pc = "enqueue"]_vars

C30_ProcessingEventuallyLeaves ==
  \A t \in TaskIds :
    (embedding_queue[t].status = "processing") ~> (embedding_queue[t].status # "processing")

(***************************************************************************)
(* Properties of the sync of a connection (SpecConn)                       *)
(***************************************************************************)
\* the sync of the connection completes with this step
ConnCompletes == crun.pc = "finish" /\ crun'.pc = "idle"

\* the sync of the connection fails with this step
ConnFails == crun.pc = "failconn" /\ crun'.pc = "idle"

\* C31: when a sync completes, last_sync_at of the connection is the time the sync
\* started, so that a person updated during the sync passes the filter of the next
\* incremental sync; when a sync fails, last_sync_at is unchanged and last_sync_status
\* is failed
C31_LastSyncAtIsStart ==
  [][ /\ ConnCompletes =>
           /\ connection'.last_sync_at = crun.started_at
           /\ crm_updated > crun.started_at => crm_updated > connection'.last_sync_at
      /\ ConnFails =>
           /\ connection'.last_sync_at = connection.last_sync_at
           /\ connection'.last_sync_status = "failed" ]_vars

(***************************************************************************)
(* Properties of a failed parse (SpecTransform)                            *)
(***************************************************************************)
\* the csv-parser request on batch b returns with this step
ParseReturns(b) == prun[b].pc # "idle" /\ prun'[b].pc = "idle"

\* C32: when a step of a parse request fails (download, CSV parsing, the insert of a
\* chunk of raw rows), the batch ends failed: a parse never returns with the batch in
\* processing, and never with the batch parsed and parsed_rows counting rows that
\* raw_lead_rows does not hold
C32_FailedParseEndsFailed ==
  [][\A b \in Batches : ParseReturns(b) =>
        /\ ingestion'[b].status # "processing"
        /\ ingestion'[b].status = "parsed" =>
              ingestion'[b].parsed_rows = Cardinality(RowIds(b)')]_vars

(***************************************************************************)
(* Properties of the matches, automatic and manual (SpecMatch)             *)
(***************************************************************************)
\* the Match m is the target of a lineage row from its canonical lead
HasLineage(m) ==
  \E l \in data_lineage :
     /\ l.source_id = m.source_lead_id
     /\ l.target_id = <<m.source_lead_id, m.fub_lead_id>>

\* C33: approving a candidate leaves the state an auto-match leaves: once no run is
\* between two of its database calls, every Match, automatic or manual, is the
\* target of a lineage row from its canonical lead
C33_EveryMatchHasLineage ==
  Quiescent => \A m \in lead_matches : HasLineage(m)

\* the agents of organization org that the CRM knows as user uid
OwnAgents(org, uid) ==
  { a \in Agents : a.fub_user_id = uid /\ TeamOrg(a.team_id) = org }

\* C34: attribution is resolved by (tenant, assigned_user_id): a Match is inserted
\* with an agent only if that agent has the CRM lead's assigned_user_id and is on a
\* team of the canonical lead's tenant, with that agent's team; and the one agent of
\* the tenant with that user id is attributed whatever agents other tenants have
C34_AttributionWithinTenant ==
  [][\A m \in lead_matches' \ lead_matches :
        LET uid == fub_leads[m.fub_lead_id].assigned_user_id
            own == OwnAgents(SrcRow(m.source_lead_id).organization_id, uid)
        IN /\ m.attributed_agent_id # 0 =>
                \E a \in own : /\ a.id = m.attributed_agent_id
                                /\ a.team_id = m.attributed_team_id
           /\ (uid # 0 /\ Cardinality(own) = 1) =>
                \E a \in own : a.id = m.attributed_agent_id]_vars

(***************************************************************************)
(* Properties of the result of find_fub_matches (SpecMatch)                *)
(***************************************************************************)
\* the CRM leads of the rows of a result
ResultLeads(r) == { r[i].fub_lead_id : i \in 1..Len(r) }

\* C35: the scorer returns each CRM lead at most once, with the maximal confidence of
\* the lead's signals, at most N leads, sorted by confidence descending; the leads it
\* leaves out when more than N have a signal have no higher confidence than those
\* it returns
C35_TopResultsByConfidence ==
  \A s \in SrcIds, n \in 1..MaxResults : \A r \in FindFubMatches(s, n) :
     /\ Len(r) <= n
     /\ \A i, j \in 1..Len(r) : i < j => r[i].fub_lead_id # r[j].fub_lead_id
     /\ \A i \in 1..Len(r) : \A o \in Signals(s, r[i].fub_lead_id) :
           r[i].confidence >= o.confidence
     /\ \A i, j \in 1..Len(r) : i < j => r[i].confidence >= r[j].confidence
     /\ \A f \in FubIds \ ResultLeads(r) : \A o \in Signals(s, f) :
           \A i \in 1..Len(r) : r[i].confidence >= o.confidence

(***************************************************************************)
(* Properties of the status a transformer run ends with (SpecTransform)    *)
(***************************************************************************)
\* the rows of the run whose insert into source_leads failed: those neither created
\* nor counted as duplicates
FailedInserts(run) == Len(run.rows) - run.createdCount - run.duplicateCount

\* C36: when the transformer finishes a batch, the status of the batch is completed
\* if every insert of a canonical lead succeeded and partial if one failed
C36_PartialWhenInsertFailed ==
  [][\A r \in TransformReqs : \A b \in Batches :
        (trun[r].pc = "finish" /\ Returns(r) /\ b = trun[r].batch) =>
           ingestion'[b].status =
             IF FailedInserts(trun[r]) > 0 THEN "partial" ELSE "completed"]_vars

(***************************************************************************)
(* Properties of iteratePeople (SpecPage)                                  *)
(***************************************************************************)
\* the requests the iteration needs: ceil(total / batchSize), one when total = 0
RequestsNeeded(total, batchSize) ==
  IF total = 0 THEN 1 ELSE (total + batchSize - 1) \div batchSize

\* C37: iteratePeople terminates on every finite corpus: it never issues more than
\* ceil(T / B) requests (one when T = 0), what it has yielded is always the people
\* 1..k in offset order, each once, and when it returns it has issued exactly that
\* many requests and yielded all T people
C37_IterationYieldsEachOnce ==
  iter.pc # "idle" =>
    /\ iter.requests <= RequestsNeeded(iter.total, iter.batchSize)
    /\ iter.yielded = [k \in 1..Len(iter.yielded) |-> k]
    /\ Len(iter.yielded) <= iter.total
    /\ iter.pc = "done" =>
          /\ iter.requests = RequestsNeeded(iter.total, iter.batchSize)
          /\ Len(iter.yielded) = iter.total

\* an iteration has returned after several pages, the last of them not full
C37_Witness ==
  /\ iter.pc = "done"
  /\ iter.total > iter.batchSize
  /\ iter.total % iter.batchSize # 0
  /\ iter.requests >= 2

(***************************************************************************)
(* Properties of concurrent stagings (SpecStage)                           *)
(***************************************************************************)
\* the batches i and j hold the same file bytes of the same tenant
SameUpload(i, j) ==
  /\ raw_ingestions[i].organization_id = raw_ingestions[j].organization_id
  /\ raw_ingestions[i].file_hash = raw_ingestions[j].file_hash

\* C38: identical uploads are coalesced, also when their stagings run concurrently:
\* there is at most one batch per (tenant, file_hash), and at most one parse is
\* triggered for it
C38_ConcurrentUploadsCoalesced ==
  /\ \A i, j \in 1..Len(raw_ingestions) : SameUpload(i, j) => i = j
  /\ \A k, l \in 1..Len(parse_triggers) :
        SameUpload(parse_triggers[k], parse_triggers[l]) => k = l

(***************************************************************************)
(* Properties of a re-enqueue during a worker run (SpecEmbed)              *)
(***************************************************************************)
\* run w is about to write item i, whose task was enqueued again with another text
\* after the run marked it processing (the upsert has set it back to pending)
WritesOverNewText(w) ==
  /\ wrun[w].pc = "write"
  /\ LET item == wrun[w].items[wrun[w].i]
     IN /\ embedding_queue[item.id].status = "pending"
        /\ embedding_queue[item.id].text_to_embed # item.text_to_embed

\* C39: a text enqueued while a worker run has the task in processing is not lost:
\* the step of the run that writes the older text does not mark the task completed,
\* so that the task is still to be embedded with the text enqueued last
C39_LateTextNotCompleted ==
  [][\A w \in Workers :
        (WritesOverNewText(w) /\ wrun'[w] # wrun[w] /\ wrun'[w].pc # "crashed") =>
           LET t == wrun[w].items[wrun[w].i].id
           IN /\ embedding_queue'[t].status # "completed"
              /\ embedding_queue'[t].text_to_embed = embedding_queue[t].text_to_embed]_vars

(***************************************************************************)
(* Properties of the processing_log of a batch (SpecLog)                   *)
(***************************************************************************)
\* the entries of a log
Entries(log) == { log[k] : k \in 1..Len(log) }

\* C40: the processing_log of a batch is append-only across the pipeline: every
\* entry written by staging, parse or transform is still in the log after every
\* later write
C40_LogIsAppendOnly ==
  [][Entries(logged.processing_log) \subseteq Entries(logged'.processing_log)]_vars

====
